---- MODULE Spec2Model ----
(***************************************************************************)
(* A model of the endpoint-binding engine of pavelmemory/feel:             *)
(* the path template parser and extractor, the immutable builder, the     *)
(* handler introspection done by Build, and the per-request executor      *)
(* EndpointProcessor.Handle.                                               *)
(*                                                                         *)
(* Strings are sequences of one-character strings, so that slicing and     *)
(* strings.Index are modelled by what they do.  Go slices of errors are    *)
(* modelled as a reference into a heap of backing arrays, so that append   *)
(* shares or reallocates as the runtime does.                              *)
(***************************************************************************)
EXTENDS Integers, Sequences, FiniteSets, TLC

VARIABLES
    builders,   \* the builder values the program holds, in creation order
    arrays,     \* heap of backing arrays of []error slices
    procs,      \* the EndpointProcessor values returned by Build
    calls,      \* the Handle invocations, each with its request-local state
    fault       \* "none", or the run-time panic that ended the program

vars == <<builders, arrays, procs, calls, fault>>

----------------------------------------------------------------------------
(* Bounds of the model.                                                    *)

\* the builders the program holds at most
MaxBuilders == 3
\* the processors it builds at most
MaxProcs == 1
\* the Handle invocations where several are needed
MaxCalls == 2
\* the Handle invocations where the claim is about each one by itself
MaxSequential == 1

----------------------------------------------------------------------------
(* Strings.                                                                *)

\* s[from:] of Go, from counted from 0
SliceFrom(s, from) == SubSeq(s, from + 1, Len(s))

\* s[from:to] of Go
SliceFromTo(s, from, to) == SubSeq(s, from + 1, to)

HasPrefixAt(s, sub, i) ==
    /\ i + Len(sub) <= Len(s)
    /\ \A j \in 1..Len(sub) : s[i + j] = sub[j]

\* strings.Index: the 0-based index of the first occurrence of sub in s, or -1
Index(s, sub) ==
    LET hits == {i \in 0..Len(s) : HasPrefixAt(s, sub, i)}
    IN  IF hits = {} THEN -1
        ELSE CHOOSE i \in hits : \A j \in hits : i <= j

RECURSIVE CountFrom(_, _, _)
CountFrom(s, sub, from) ==
    LET d == Index(SliceFrom(s, from), sub)
    IN  IF d = -1 THEN 0
        ELSE 1 + CountFrom(s, sub, from + d + Len(sub))

\* strings.Count: the number of non-overlapping occurrences of sub in s
Count(s, sub) == CountFrom(s, sub, 0)

pathTemplateStart == <<"/", ":">>
pathTemplateEnd == <<"/">>

----------------------------------------------------------------------------
(* Path template parser and extractor.                                     *)

RECURSIVE OffsetsLoop(_, _, _)
OffsetsLoop(requestURI, from, offsets) ==
    LET dirtyOffset == Index(SliceFrom(requestURI, from), pathTemplateStart)
    IN  IF dirtyOffset = -1 THEN offsets
        ELSE LET offset == dirtyOffset + 1
                 from2 == from + offset
                 dirtyOffsetEnd == Index(SliceFrom(requestURI, from2), pathTemplateEnd)
             IN  IF dirtyOffsetEnd = -1 THEN Append(offsets, offset)
                 ELSE OffsetsLoop(requestURI, from2 + dirtyOffsetEnd,
                                  Append(offsets, offset))

\* the scan that records the position of every slot from the start of the
\* template
RECURSIVE OffsetsLoopAbsolute(_, _, _)
OffsetsLoopAbsolute(requestURI, from, offsets) ==
    LET dirtyOffset == Index(SliceFrom(requestURI, from), pathTemplateStart)
    IN  IF dirtyOffset = -1 THEN offsets
        ELSE LET offset == dirtyOffset + 1
                 from2 == from + offset
                 dirtyOffsetEnd == Index(SliceFrom(requestURI, from2), pathTemplateEnd)
             IN  IF dirtyOffsetEnd = -1 THEN Append(offsets, from2)
                 ELSE OffsetsLoopAbsolute(requestURI, from2 + dirtyOffsetEnd,
                                          Append(offsets, from2))

pathValueSegmentOffsetsAbsolute(requestURI) ==
    OffsetsLoopAbsolute(requestURI, 0, <<>>)

\* the scan that records a slot only once it has found the "/" that ends it
RECURSIVE OffsetsLoopClosedOnly(_, _, _)
OffsetsLoopClosedOnly(requestURI, from, offsets) ==
    LET dirtyOffset == Index(SliceFrom(requestURI, from), pathTemplateStart)
    IN  IF dirtyOffset = -1 THEN offsets
        ELSE LET offset == dirtyOffset + 1
                 from2 == from + offset
                 dirtyOffsetEnd == Index(SliceFrom(requestURI, from2), pathTemplateEnd)
             IN  IF dirtyOffsetEnd = -1 THEN offsets
                 ELSE OffsetsLoopClosedOnly(requestURI, from2 + dirtyOffsetEnd,
                                            Append(offsets, offset))

pathValueSegmentOffsetsClosedOnly(requestURI) ==
    OffsetsLoopClosedOnly(requestURI, 0, <<>>)

pathValueSegmentOffsets(requestURI) == OffsetsLoop(requestURI, 0, <<>>)

\* an extractor that takes every offset from the start of uri
RECURSIVE ExtractLoopAbsolute(_, _, _)
ExtractLoopAbsolute(offsets, uri, values) ==
    IF offsets = <<>> THEN [fault |-> FALSE, values |-> values]
    ELSE LET startAt == Head(offsets)
         IN  IF startAt > Len(uri) THEN [fault |-> TRUE, values |-> values]
             ELSE LET endAt == Index(SliceFrom(uri, startAt), <<"/">>)
                  IN  IF endAt = -1
                      THEN [fault |-> FALSE,
                            values |-> Append(values, SliceFrom(uri, startAt))]
                      ELSE ExtractLoopAbsolute(Tail(offsets), uri,
                               Append(values, SliceFromTo(uri, startAt, endAt + startAt)))

pathValuesByOffsetsAbsolute(offsets, uri) == ExtractLoopAbsolute(offsets, uri, <<>>)

\* The extractor closure applied to uri: [fault, values].  Slicing uri beyond
\* its length is a run-time panic.
RECURSIVE ExtractLoop(_, _, _, _)
ExtractLoop(offsets, uri, from, values) ==
    IF offsets = <<>> THEN [fault |-> FALSE, values |-> values]
    ELSE LET startAt == from + Head(offsets)
         IN  IF startAt > Len(uri) THEN [fault |-> TRUE, values |-> values]
             ELSE LET endAt == Index(SliceFrom(uri, startAt), <<"/">>)
                  IN  IF endAt = -1
                      THEN [fault |-> FALSE,
                            values |-> Append(values, SliceFrom(uri, startAt))]
                      ELSE ExtractLoop(Tail(offsets), uri, endAt + startAt,
                               Append(values, SliceFromTo(uri, startAt, endAt + startAt)))

pathValuesByOffsets(offsets, uri) == ExtractLoop(offsets, uri, 0, <<>>)

\* builder.pathValues as set by newBuilder
pathValues(pathParamsAmount, offsets, uri) ==
    IF pathParamsAmount > 0 THEN pathValuesByOffsets(offsets, uri)
    ELSE [fault |-> FALSE, values |-> <<uri>>]

----------------------------------------------------------------------------
(* Parameter groups (the iota block of builder.go).                        *)

pathParametersGroup == 0
queryParametersGroup == 1
headerParametersGroup == 2
bodyParametersGroup == 3
cookieParametersGroup == 4
responseBodyParametersGroup == 5
responseErrorParametersGroup == 6
responseStatusCodeParametersGroup == 7
responseHeaderParametersGroup == 8
responseContentTypeParametersGroup == 9
responseCookieParametersGroup == 10

Groups == 0..10

----------------------------------------------------------------------------
(* Go types of handler parameters, by name, with what reflect tells about  *)
(* them.                                                                   *)

headersType == "http.Header"
urlQueryType == "url.Values"
cookiesType == "[]*http.Cookie"
errorType == "error"
httpStatusType == "int"

Types == {"string", "bool", "int", "int8", "uint16", "[]byte", "[2]byte",
          "[]int", "Key", "*Key", "[]Filter", "UserDefinedPathType", "ConvStruct",
          headersType, urlQueryType, cookiesType, errorType}

\* reflect.Type.Kind
Kind(t) ==
    CASE t = "string" -> "String"
      [] t = "bool" -> "Bool"
      [] t = "int" -> "Int"
      [] t = "int8" -> "Int8"
      [] t = "uint16" -> "Uint16"
      [] t \in {"[]byte", "[]int", "[]Filter", cookiesType} -> "Slice"
      [] t = "[2]byte" -> "Array"
      [] t \in {"Key", "ConvStruct"} -> "Struct"
      [] t = "*Key" -> "Ptr"
      [] t = "UserDefinedPathType" -> "String"
      [] t \in {headersType, urlQueryType} -> "Map"
      [] t = errorType -> "Interface"

\* reflect.Type.Elem().Kind() of a slice or array type
ElemKind(t) ==
    CASE t \in {"[]byte", "[2]byte"} -> "Uint8"
      [] t = "[]int" -> "Int"
      [] t = "[]Filter" -> "String"
      [] t = cookiesType -> "Ptr"
      [] OTHER -> "Invalid"

\* reflect.Type.Len of an array type
ArrayLen(t) == IF t = "[2]byte" THEN 2 ELSE 0

\* Type.Implements(PathParameterConverterType)
ImplementsPathParameterConverter(t) == t \in {"UserDefinedPathType", "ConvStruct"}

\* Type.Implements(errorType)
ImplementsError(t) == t = errorType

ScalarKinds == {"String", "Bool", "Int", "Int8", "Int16", "Int32", "Int64",
                "Uint", "Uint8", "Uint16", "Uint32", "Uint64"}

----------------------------------------------------------------------------
(* Errors.                                                                 *)

UnsupportedType == "unsupported type"
InvalidMapping == "invalid mapping"

UnsupportedTypeError(contextCause) ==
    [GeneralCause |-> UnsupportedType, ContextCause |-> contextCause]

InvalidMappingError(contextCause) ==
    [GeneralCause |-> InvalidMapping, ContextCause |-> contextCause]

\* an error that is not an Error of this package (strconv, codec)
ForeignError(msg) == [GeneralCause |-> "none", ContextCause |-> msg]

NoError == [GeneralCause |-> "nil", ContextCause |-> "nil"]

----------------------------------------------------------------------------
(* Slices of errors.  A slice is a window [arr, len] on a backing array of *)
(* the heap; arr = 0 is the slice without a backing array (capacity 0).    *)
(* The capacity of a slice is the length of its backing array.             *)

NoArray == 0

EmptySlice == [arr |-> NoArray, len |-> 0]

Cap(heap, s) == IF s.arr = NoArray THEN 0 ELSE Len(heap[s.arr])

\* the elements a slice shows
Elems(heap, s) == IF s.arr = NoArray THEN <<>> ELSE SubSeq(heap[s.arr], 1, s.len)

\* capacity chosen by the runtime when append has to grow a full slice of
\* errors (interface values of 16 bytes) by one: 1 for the empty slice, else
\* twice the capacity, which for these capacities is a whole size class of
\* the allocator (32 to 512 bytes), so nothing is rounded up.  The language
\* leaves the capacity to the implementation; every gc release chooses
\* these values for a capacity up to 16, and beyond it the releases differ,
\* so the operator is defined for the capacities 0 to 16 only.
GrowCap(oldCap) ==
    CASE oldCap = 0 -> 1
      [] oldCap \in 1..16 -> 2 * oldCap

\* append(s, e): in place when the capacity allows, else into a new array
appendError(heap, s, e) ==
    IF s.len < Cap(heap, s)
    THEN [heap |-> [heap EXCEPT ![s.arr][s.len + 1] = e],
          s |-> [arr |-> s.arr, len |-> s.len + 1]]
    ELSE LET newCap == GrowCap(Cap(heap, s))
             content == [j \in 1..newCap |->
                            IF j <= s.len THEN heap[s.arr][j]
                            ELSE IF j = s.len + 1 THEN e ELSE NoError]
         IN  [heap |-> Append(heap, content),
              s |-> [arr |-> Len(heap) + 1, len |-> s.len + 1]]

RECURSIVE appendErrors(_, _, _)
appendErrors(heap, s, es) ==
    IF es = <<>> THEN [heap |-> heap, s |-> s]
    ELSE LET r == appendError(heap, s, Head(es))
         IN  appendErrors(r.heap, r.s, Tail(es))

\* make([]error, len(errs)) and copy, done by clone when len(errs) > 0
copyErrors(heap, s) ==
    IF s.len > 0
    THEN [heap |-> Append(heap, Elems(heap, s)),
          s |-> [arr |-> Len(heap) + 1, len |-> s.len]]
    ELSE [heap |-> heap, s |-> s]

----------------------------------------------------------------------------
(* The builder.                                                            *)

Nil == "nil"

\* a nil map: reading it yields nothing, writing it is a run-time panic
NilMap == [isNil |-> TRUE, m |-> [g \in Groups |-> <<>>]]

\* make(map[int][]reflect.Type)
MakeMap == [isNil |-> FALSE, m |-> [g \in Groups |-> <<>>]]

\* the zero reflect.Value
NoService == [kind |-> "zero"]

newBuilder(urlPathTemplate) ==
    LET pathParamsAmount == Count(urlPathTemplate, pathTemplateStart)
    IN  [ pathParamsAmount |-> pathParamsAmount,
          offsets |-> IF pathParamsAmount > 0
                      THEN pathValueSegmentOffsets(urlPathTemplate) ELSE <<>>,
          decoder |-> Nil,
          contentTypeProvider |-> Nil,
          encoder |-> Nil,
          errors |-> EmptySlice,
          parametersBy |-> NilMap,
          serviceValue |-> NoService,
          orderOfOtherParameters |-> <<>>,
          orderOfResponseParameters |-> <<>>,
          pathParameters |-> <<>>,
          headerParameters |-> Nil,
          queryParameters |-> Nil,
          cookieParameters |-> Nil,
          bodyParameters |-> Nil,
          errorMapper |-> Nil,
          responseHeaderParameters |-> Nil,
          responseStatusCodeParameters |-> Nil,
          responseCookieParameters |-> Nil,
          responseErrorParameters |-> Nil ]

\* builder.clone: the maps and order vectors of the model are values, so
\* their copy is the value itself; the error slice gets its own array.
clone(heap, cloned) ==
    LET c == copyErrors(heap, cloned.errors)
    IN  [heap |-> c.heap, b |-> [cloned EXCEPT !.errors = c.s]]

\* Each builder operation: the heap and the builder value it returns.
Before(heap, b) == clone(heap, b)

After(heap, b) == clone(heap, b)

Decoder(heap, b, decoder) ==
    LET c == clone(heap, b)
    IN  [heap |-> c.heap, b |-> [c.b EXCEPT !.decoder = decoder]]

Encoder(heap, b, encoder) ==
    LET c == clone(heap, b)
    IN  [heap |-> c.heap, b |-> [c.b EXCEPT !.encoder = encoder]]

ResponseContentType(heap, b, setter) ==
    LET c == clone(heap, b)
    IN  [heap |-> c.heap, b |-> [c.b EXCEPT !.contentTypeProvider = setter]]

ErrorMapping(heap, b, errorMapper) ==
    LET c == clone(heap, b)
    IN  [heap |-> c.heap, b |-> [c.b EXCEPT !.errorMapper = errorMapper]]

\* Handler: service is a function value [kind |-> "func", ...] or a value
\* that is no function [kind |-> "nonfunc"]
Handler(heap, b, service) ==
    IF service.kind # "func"
    THEN LET r == appendError(heap, b.errors,
                      InvalidMappingError("handler is not a function/method"))
         IN  [heap |-> r.heap, b |-> [b EXCEPT !.errors = r.s]]
    ELSE LET c == clone(heap, b)
         IN  [heap |-> c.heap, b |-> [c.b EXCEPT !.serviceValue = service]]

----------------------------------------------------------------------------
(* Build: introspection of the handler.  Build works on its own copy of    *)
(* the builder; w is that copy (w.b), the errors it appended so far        *)
(* (w.added, in order) and the panic that stopped it, if any (w.panic).     *)

NoPanic == "none"

addError(w, e) == [w EXCEPT !.added = Append(@, e)]

\* b.parametersBy[group] = append(b.parametersBy[group], parameterType)
addToParametersBy(w, group, parameterType) ==
    IF w.b.parametersBy.isNil
    THEN [w EXCEPT !.panic = "assignment to entry in nil map"]
    ELSE [w EXCEPT !.b.parametersBy.m[group] = Append(@, parameterType)]

RECURSIVE groupRequestPathLoop(_, _, _)
groupRequestPathLoop(w, serviceType, i) ==
    IF i >= w.b.pathParamsAmount THEN w
    ELSE LET parameterType == serviceType.in[i + 1]
         IN  IF Kind(parameterType) \in ScalarKinds
             THEN groupRequestPathLoop(
                      addToParametersBy(w, pathParametersGroup, parameterType),
                      serviceType, i + 1)
             ELSE IF Kind(parameterType) \in {"Slice", "Array"}
             THEN IF ElemKind(parameterType) # "Uint8"
                  THEN addError(w, UnsupportedTypeError("supports only slice/array of bytes"))
                  ELSE groupRequestPathLoop(
                           addToParametersBy(w, pathParametersGroup, parameterType),
                           serviceType, i + 1)
             ELSE addError(w, UnsupportedTypeError("unsupported type for path parameter"))

groupRequestPathParameters(w, serviceType) ==
    IF Len(serviceType.in) < w.b.pathParamsAmount
    THEN addError(w, InvalidMappingError("unexpected amount of path parameters"))
    ELSE groupRequestPathLoop([w EXCEPT !.b.parametersBy = MakeMap], serviceType, 0)

\* the group of an input after the path positions
otherGroupOf(parameterType) ==
    CASE parameterType = headersType -> headerParametersGroup
      [] parameterType = urlQueryType -> queryParametersGroup
      [] parameterType = cookiesType -> cookieParametersGroup
      [] OTHER -> bodyParametersGroup

otherGroupErrorMsg(group) ==
    CASE group = headerParametersGroup ->
             "unable do mapping of headers to more than 1 parameter in service function"
      [] group = queryParametersGroup ->
             "unable do mapping of URL query values to more than 1 parameter in service function"
      [] group = cookieParametersGroup ->
             "unable do mapping of cookies to more than 1 parameter in service function"
      [] OTHER ->
             "unable do mapping of body to more than 1 parameter in service function"

\* groupRequestOtherParameters with an addToGroup that accepts a second
\* parameter of a group
RECURSIVE groupRequestOtherLoopNoCheck(_, _, _)
groupRequestOtherLoopNoCheck(w, serviceType, i) ==
    IF i >= Len(serviceType.in) THEN w
    ELSE LET parameterType == serviceType.in[i + 1]
             group == otherGroupOf(parameterType)
             w2 == addToParametersBy(w, group, parameterType)
         IN  IF w2.panic # NoPanic THEN w2
             ELSE groupRequestOtherLoopNoCheck(
                      [w2 EXCEPT !.b.orderOfOtherParameters = Append(@, group)],
                      serviceType, i + 1)

RECURSIVE groupRequestOtherLoop(_, _, _)
groupRequestOtherLoop(w, serviceType, i) ==
    IF i >= Len(serviceType.in) THEN w
    ELSE LET parameterType == serviceType.in[i + 1]
             group == otherGroupOf(parameterType)
         IN  IF Len(w.b.parametersBy.m[group]) > 0
             THEN addError(w, InvalidMappingError(otherGroupErrorMsg(group)))
             ELSE LET w2 == addToParametersBy(w, group, parameterType)
                  IN  IF w2.panic # NoPanic THEN w2
                      ELSE groupRequestOtherLoop(
                               [w2 EXCEPT !.b.orderOfOtherParameters = Append(@, group)],
                               serviceType, i + 1)

groupRequestOtherParameters(w, serviceType) ==
    groupRequestOtherLoop(w, serviceType, w.b.pathParamsAmount)

\* the group of an output
responseGroupOf(parameterType) ==
    CASE parameterType = headersType -> responseHeaderParametersGroup
      [] parameterType = cookiesType -> responseCookieParametersGroup
      [] parameterType = httpStatusType -> responseStatusCodeParametersGroup
      [] ImplementsError(parameterType) -> responseErrorParametersGroup
      [] OTHER -> responseBodyParametersGroup

RECURSIVE groupResponseLoop(_, _, _)
groupResponseLoop(w, serviceType, i) ==
    IF i >= Len(serviceType.out) THEN w
    ELSE LET parameterType == serviceType.out[i + 1]
             group == responseGroupOf(parameterType)
             dup == Len(w.b.parametersBy.m[group]) > 0
             w1 == IF dup /\ group = responseBodyParametersGroup
                   THEN addError(w, InvalidMappingError("unable to map body to multiple response entities"))
                   ELSE w
             w2 == addToParametersBy(w1, group, parameterType)
         IN  IF dup /\ group \in {responseStatusCodeParametersGroup,
                                  responseErrorParametersGroup}
             THEN addError(w, InvalidMappingError(
                      IF group = responseStatusCodeParametersGroup
                      THEN "unable to map multiple response status codes"
                      ELSE "unable to map multiple error return values"))
             ELSE IF w2.panic # NoPanic THEN w2
             ELSE groupResponseLoop(
                      [w2 EXCEPT !.b.orderOfResponseParameters = Append(@, group)],
                      serviceType, i + 1)

groupResponseParameters(w, serviceType) == groupResponseLoop(w, serviceType, 0)

groupRequestParameters(w, serviceType) ==
    LET w1 == groupRequestPathParameters(w, serviceType)
    IN  IF w1.panic # NoPanic THEN w1 ELSE groupRequestOtherParameters(w1, serviceType)

groupParameters(w, serviceType) ==
    LET w1 == groupRequestParameters(w, serviceType)
    IN  IF w1.panic # NoPanic THEN w1 ELSE groupResponseParameters(w1, serviceType)

----------------------------------------------------------------------------
(* Build: the providers.                                                   *)

hasParametersIn(w, parametersGroup) ==
    ~w.b.parametersBy.isNil /\ Len(w.b.parametersBy.m[parametersGroup]) > 0

\* the converter definePathParameters selects for a path parameter type;
\* kind "none" when the type has none
converterOf(pathParameterType) ==
    LET k == Kind(pathParameterType)
        conv(kind, bitSize) ==
            [kind |-> kind, bitSize |-> bitSize, type |-> pathParameterType]
    IN  IF ImplementsPathParameterConverter(pathParameterType) THEN conv("User", 0)
        ELSE CASE k = "String" -> conv("String", 0)
               [] k = "Int8" -> conv("Int", 8)
               [] k = "Int16" -> conv("Int", 16)
               [] k = "Int32" -> conv("Int", 32)
               [] k = "Int64" -> conv("Int", 64)
               [] k = "Int" -> conv("Int", 32)
               [] k = "Uint8" -> conv("Uint", 8)
               [] k = "Uint16" -> conv("Uint", 16)
               [] k = "Uint32" -> conv("Uint", 32)
               [] k = "Uint64" -> conv("Uint", 64)
               [] k = "Uint" -> conv("Uint", 32)
               [] k = "Bool" -> conv("Bool", 0)
               [] k = "Slice" /\ ElemKind(pathParameterType) = "Uint8" -> conv("SliceByte", 0)
               [] k = "Array" /\ ElemKind(pathParameterType) = "Uint8" -> conv("ArrayByte", 0)
               [] OTHER -> conv("none", 0)

RECURSIVE definePathLoop(_, _, _)
definePathLoop(w, pathParameters, converters) ==
    IF pathParameters = <<>>
    THEN [w EXCEPT !.b.pathParameters = converters]
    ELSE LET converter == converterOf(Head(pathParameters))
         IN  IF converter.kind = "none"
             THEN addError(w, UnsupportedTypeError("for path parameter"))
             ELSE definePathLoop(w, Tail(pathParameters), Append(converters, converter))

definePathParameters(w) ==
    IF ~hasParametersIn(w, pathParametersGroup) THEN w
    ELSE definePathLoop(w, w.b.parametersBy.m[pathParametersGroup], <<>>)

defineHeaderParameters(w) ==
    IF ~hasParametersIn(w, headerParametersGroup) THEN w
    ELSE [w EXCEPT !.b.headerParameters = "set"]

defineQueryParameters(w) ==
    IF ~hasParametersIn(w, queryParametersGroup) THEN w
    ELSE [w EXCEPT !.b.queryParameters = "set"]

defineCookieParameters(w) ==
    IF ~hasParametersIn(w, cookieParametersGroup) THEN w
    ELSE [w EXCEPT !.b.cookieParameters = "set"]

defineBodyParameters(w) ==
    IF ~hasParametersIn(w, bodyParametersGroup) THEN w
    ELSE IF Len(w.b.parametersBy.m[bodyParametersGroup]) # 1
    THEN addError(w, InvalidMappingError("doesn't support multiple return body mapped values"))
    ELSE IF w.b.decoder = Nil
    THEN addError(w, InvalidMappingError(
             "mapping of request body to struct without decoder is impossible"))
    ELSE [w EXCEPT !.b.bodyParameters = "set"]

defineResponseHeaderParameters(w) ==
    IF ~hasParametersIn(w, responseHeaderParametersGroup) THEN w
    ELSE IF Len(w.b.parametersBy.m[responseHeaderParametersGroup]) # 1
    THEN addError(w, InvalidMappingError(
             "supports only single response headers service function return value"))
    ELSE [w EXCEPT !.b.responseHeaderParameters = "set"]

defineResponseStatusCodeParameters(w) ==
    IF ~hasParametersIn(w, responseStatusCodeParametersGroup) THEN w
    ELSE IF Len(w.b.parametersBy.m[responseStatusCodeParametersGroup]) # 1
    THEN addError(w, InvalidMappingError(
             "supports only single response status code service function return value"))
    ELSE [w EXCEPT !.b.responseStatusCodeParameters = "set"]

defineResponseCookieParameters(w) ==
    IF ~hasParametersIn(w, responseCookieParametersGroup) THEN w
    ELSE IF Len(w.b.parametersBy.m[responseCookieParametersGroup]) # 1
    THEN addError(w, InvalidMappingError(
             "supports only single response cookies service function return value"))
    ELSE [w EXCEPT !.b.responseCookieParameters = "set"]

\* defineResponseErrorParameters that keeps DefaultErrorMapper whatever
\* ErrorMapping configured
defineResponseErrorParametersDefaultOnly(w) ==
    IF ~hasParametersIn(w, responseErrorParametersGroup) THEN w
    ELSE IF Len(w.b.parametersBy.m[responseErrorParametersGroup]) # 1
    THEN addError(w, InvalidMappingError(
             "mapping of multiple error values of service function return clause is not supported"))
    ELSE [w EXCEPT !.b.responseErrorParameters = "DefaultErrorMapper"]

defineResponseErrorParameters(w) ==
    IF ~hasParametersIn(w, responseErrorParametersGroup) THEN w
    ELSE IF Len(w.b.parametersBy.m[responseErrorParametersGroup]) # 1
    THEN addError(w, InvalidMappingError(
             "mapping of multiple error values of service function return clause is not supported"))
    ELSE [w EXCEPT !.b.responseErrorParameters =
                       IF w.b.errorMapper # Nil THEN w.b.errorMapper
                       ELSE "DefaultErrorMapper"]

defineProviders(w) ==
    defineResponseErrorParameters(
    defineResponseCookieParameters(
    defineResponseStatusCodeParameters(
    defineResponseHeaderParameters(
    defineBodyParameters(
    defineCookieParameters(
    defineQueryParameters(
    defineHeaderParameters(
    definePathParameters(w)))))))))

----------------------------------------------------------------------------
(* Path-segment converters.  A decimal number is kept as its digits, so    *)
(* that the range checks of strconv are made on numbers of any size.        *)

Digits == <<"0", "1", "2", "3", "4", "5", "6", "7", "8", "9">>

IsDigit(c) == \E d \in 1..10 : Digits[d] = c

DigitVal(c) == (CHOOSE d \in 1..10 : Digits[d] = c) - 1

RECURSIVE StripZeros(_)
StripZeros(ds) ==
    IF Len(ds) > 1 /\ Head(ds) = "0" THEN StripZeros(Tail(ds)) ELSE ds

\* a < b for digit sequences without leading zeros
RECURSIVE LexLess(_, _)
LexLess(a, b) ==
    IF a = <<>> THEN FALSE
    ELSE IF DigitVal(Head(a)) # DigitVal(Head(b))
    THEN DigitVal(Head(a)) < DigitVal(Head(b))
    ELSE LexLess(Tail(a), Tail(b))

\* a <= b as numbers, for digit sequences
NumLeq(a, b) ==
    LET x == StripZeros(a)
        y == StripZeros(b)
    IN  IF Len(x) # Len(y) THEN Len(x) < Len(y) ELSE x = y \/ LexLess(x, y)

\* 2^(bitSize-1) and 2^bitSize - 1, in digits
SignedCutoff(bitSize) ==
    CASE bitSize = 8 -> <<"1", "2", "8">>
      [] bitSize = 16 -> <<"3", "2", "7", "6", "8">>
      [] bitSize = 32 -> <<"2", "1", "4", "7", "4", "8", "3", "6", "4", "8">>
      [] bitSize = 64 -> <<"9", "2", "2", "3", "3", "7", "2", "0", "3", "6",
                           "8", "5", "4", "7", "7", "5", "8", "0", "8">>

UnsignedMax(bitSize) ==
    CASE bitSize = 8 -> <<"2", "5", "5">>
      [] bitSize = 16 -> <<"6", "5", "5", "3", "5">>
      [] bitSize = 32 -> <<"4", "2", "9", "4", "9", "6", "7", "2", "9", "5">>
      [] bitSize = 64 -> <<"1", "8", "4", "4", "6", "7", "4", "4", "0", "7",
                           "3", "7", "0", "9", "5", "5", "1", "6", "1", "5">>

\* the value of a number: its sign and its digits without leading zeros
Number(neg, ds) ==
    LET x == StripZeros(ds)
    IN  [neg |-> neg /\ x # <<"0">>, digits |-> x]

\* strconv.ParseUint(s, 10, bitSize)
\* The characters are read from the left: the first that is no digit is a
\* syntax error, unless the digits before it already exceed 2^bitSize - 1,
\* which is a range error.
ParseUint(s, bitSize) ==
    LET bad == {i \in 1..Len(s) : ~IsDigit(s[i])}
        stop == IF bad = {} THEN Len(s) + 1
                ELSE CHOOSE i \in bad : \A j \in bad : i <= j
        ds == SubSeq(s, 1, stop - 1)
    IN  IF s = <<>>
        THEN [err |-> ForeignError("strconv: invalid syntax"), n |-> Number(FALSE, <<"0">>)]
        ELSE IF ds # <<>> /\ ~NumLeq(ds, UnsignedMax(bitSize))
        THEN [err |-> ForeignError("strconv: value out of range"), n |-> Number(FALSE, <<"0">>)]
        ELSE IF bad # {}
        THEN [err |-> ForeignError("strconv: invalid syntax"), n |-> Number(FALSE, <<"0">>)]
        ELSE [err |-> NoError, n |-> Number(FALSE, s)]

\* strconv.ParseInt(s, 10, bitSize): the sign is taken off and the rest is
\* read by ParseUint with the same bitSize; its syntax error is returned as
\* it is, its range error stays a range error
ParseInt(s, bitSize) ==
    LET signed == s # <<>> /\ Head(s) \in {"+", "-"}
        neg == s # <<>> /\ Head(s) = "-"
        ds == IF signed THEN Tail(s) ELSE s
        un == ParseUint(ds, bitSize)
    IN  IF un.err = ForeignError("strconv: invalid syntax")
        THEN [err |-> ForeignError("strconv: invalid syntax"), n |-> Number(FALSE, <<"0">>)]
        ELSE IF \/ un.err # NoError
                \/ ~neg /\ NumLeq(SignedCutoff(bitSize), ds)
                \/ neg /\ ~NumLeq(ds, SignedCutoff(bitSize))
        THEN [err |-> ForeignError("strconv: value out of range"), n |-> Number(FALSE, <<"0">>)]
        ELSE [err |-> NoError, n |-> Number(neg, ds)]

\* strconv.ParseBool
ParseBool(s) ==
    IF s \in {<<"1">>, <<"t">>, <<"T">>, <<"t", "r", "u", "e">>,
              <<"T", "R", "U", "E">>, <<"T", "r", "u", "e">>}
    THEN [err |-> NoError, v |-> TRUE]
    ELSE IF s \in {<<"0">>, <<"f">>, <<"F">>, <<"f", "a", "l", "s", "e">>,
                   <<"F", "A", "L", "S", "E">>, <<"F", "a", "l", "s", "e">>}
    THEN [err |-> NoError, v |-> FALSE]
    ELSE [err |-> ForeignError("strconv: invalid syntax"), v |-> FALSE]

\* a reflect.Value: its type and what it holds
Value(type, v) == [type |-> type, v |-> v]

ZeroValue == [type |-> "invalid", v |-> Nil]

\* PathParameterConverter.Convert of the converter selected for a type
Convert(converter, pathPart) ==
    CASE converter.kind = "String" ->
             [err |-> NoError, value |-> Value(converter.type, pathPart)]
      [] converter.kind = "Int" ->
             LET p == ParseInt(pathPart, converter.bitSize)
             IN  IF p.err # NoError THEN [err |-> p.err, value |-> ZeroValue]
                 ELSE [err |-> NoError, value |-> Value(converter.type, p.n)]
      [] converter.kind = "Uint" ->
             LET p == ParseUint(pathPart, converter.bitSize)
             IN  IF p.err # NoError THEN [err |-> p.err, value |-> ZeroValue]
                 ELSE [err |-> NoError, value |-> Value(converter.type, p.n)]
      [] converter.kind = "Bool" ->
             LET p == ParseBool(pathPart)
             IN  IF p.err # NoError THEN [err |-> p.err, value |-> ZeroValue]
                 ELSE [err |-> NoError, value |-> Value(converter.type, p.v)]
      [] converter.kind = "SliceByte" ->
             [err |-> NoError, value |-> Value(converter.type, pathPart)]
      [] converter.kind = "ArrayByte" ->
             [err |-> NoError,
              value |-> Value(converter.type,
                            [j \in 1..ArrayLen(converter.type) |->
                                IF j <= Len(pathPart) THEN pathPart[j] ELSE "\\0"])]
      [] converter.kind = "User" ->
             [err |-> NoError, value |-> Value(converter.type, pathPart)]

----------------------------------------------------------------------------
(* Build: the two closures of the processor.                               *)

\* buildProcessRequest with its collectors in a fixed order of the groups
\* rather than the order orderOfOtherParameters declares
buildProcessRequestFixedOrder(b) ==
    (IF b.pathParameters # <<>> THEN <<pathParametersGroup>> ELSE <<>>)
        \o SelectSeq(<<headerParametersGroup, queryParametersGroup,
                       cookieParametersGroup, bodyParametersGroup>>,
                     LAMBDA g : \E i \in 1..Len(b.orderOfOtherParameters) :
                                   b.orderOfOtherParameters[i] = g)

\* buildProcessRequest: the groups of the value collectors, in their order
buildProcessRequest(b) ==
    (IF b.pathParameters # <<>> THEN <<pathParametersGroup>> ELSE <<>>)
        \o b.orderOfOtherParameters

Absent == [kind |-> "absent", index |-> -1]

\* the resolver compiled for the output at index of the order vector
resolverOf(b, group, index) ==
    CASE group = responseHeaderParametersGroup -> [kind |-> "Header", index |-> index]
      [] group = responseStatusCodeParametersGroup -> [kind |-> "StatusCode", index |-> index]
      [] group = responseCookieParametersGroup -> [kind |-> "Cookie", index |-> index]
      [] group = responseBodyParametersGroup ->
             IF b.encoder # Nil THEN [kind |-> "BodyEncoder", index |-> index]
             ELSE LET k == Kind(b.parametersBy.m[group][1])
                  IN  CASE k = "String" -> [kind |-> "BodyString", index |-> index]
                        [] k = "Slice" -> [kind |-> "BodySlice", index |-> index]
                        [] k = "Array" -> [kind |-> "BodyArray", index |-> index]
                        [] OTHER -> Absent
      [] OTHER -> Absent

\* the loop that ends at the error output, leaving the outputs declared
\* after it without resolver
RECURSIVE responseResolversLoopUntilError(_, _, _)
responseResolversLoopUntilError(b, index, resolvers) ==
    IF index >= Len(b.orderOfResponseParameters) THEN resolvers
    ELSE LET group == b.orderOfResponseParameters[index + 1]
             r == resolverOf(b, group, index)
         IN  IF group = responseErrorParametersGroup THEN resolvers
             ELSE responseResolversLoopUntilError(b, index + 1,
                      IF r = Absent THEN resolvers
                      ELSE [resolvers EXCEPT ![group] = r])

RECURSIVE responseResolversLoop(_, _, _)
responseResolversLoop(b, index, resolvers) ==
    IF index >= Len(b.orderOfResponseParameters) THEN resolvers
    ELSE LET group == b.orderOfResponseParameters[index + 1]
             r == resolverOf(b, group, index)
         IN  responseResolversLoop(b, index + 1,
                 IF group = responseErrorParametersGroup \/ r = Absent THEN resolvers
                 ELSE [resolvers EXCEPT ![group] = r])

\* the map of resolvers in which the resolver of a declared status code
\* does not take the place of the one that writes 200
responseResolversStatusOKKept(b) ==
    LET initial == [g \in Groups |->
                       IF g = responseStatusCodeParametersGroup
                       THEN [kind |-> "StatusOK", index |-> -1] ELSE Absent]
        declared == [responseResolversLoop(b, 0, initial)
                        EXCEPT ![responseStatusCodeParametersGroup] =
                                   [kind |-> "StatusOK", index |-> -1]]
    IN  IF b.contentTypeProvider # Nil
        THEN [declared EXCEPT ![responseContentTypeParametersGroup] =
                                  [kind |-> "ContentType", index |-> -1]]
        ELSE declared

\* the map of resolvers without the one of the configured content type
responseResolversWithoutContentType(b) ==
    LET initial == [g \in Groups |->
                       IF g = responseStatusCodeParametersGroup
                       THEN [kind |-> "StatusOK", index |-> -1] ELSE Absent]
    IN  responseResolversLoop(b, 0, initial)

\* the map responseResolvers of buildProduceResponse
responseResolvers(b) ==
    LET initial == [g \in Groups |->
                       IF g = responseStatusCodeParametersGroup
                       THEN [kind |-> "StatusOK", index |-> -1] ELSE Absent]
        declared == responseResolversLoop(b, 0, initial)
    IN  IF b.contentTypeProvider # Nil
        THEN [declared EXCEPT ![responseContentTypeParametersGroup] =
                                  [kind |-> "ContentType", index |-> -1]]
        ELSE declared

\* the position of the error output in the return vector, or -1
errorReturnValueIndex(b) ==
    LET hits == {i \in 1..Len(b.orderOfResponseParameters) :
                    b.orderOfResponseParameters[i] = responseErrorParametersGroup}
    IN  IF hits = {} THEN -1
        ELSE (CHOOSE i \in hits : \A j \in hits : j <= i) - 1

\* the order of the resolvers with the body ahead of the status code
canonicalOrderBodyFirst ==
    << responseContentTypeParametersGroup,
       responseHeaderParametersGroup,
       responseCookieParametersGroup,
       responseBodyParametersGroup,
       responseStatusCodeParametersGroup >>

\* the canonical order in which the resolvers run
canonicalOrder ==
    << responseContentTypeParametersGroup,
       responseHeaderParametersGroup,
       responseCookieParametersGroup,
       responseStatusCodeParametersGroup,
       responseBodyParametersGroup >>

\* the vector parametersGroup of buildProduceResponse
parametersGroup(b) ==
    LET resolvers == responseResolvers(b)
    IN  SelectSeq(canonicalOrder, LAMBDA g : resolvers[g] # Absent)

\* builder.Build on the builder value b: the panic that stopped it or the
\* processor it returns, and the heap after its appends to b.errors
Build(heap, b) ==
    IF b.serviceValue.kind # "func"
    THEN [panic |-> "call of reflect.Value.Type on zero Value", heap |-> heap,
          proc |-> Nil]
    ELSE LET w0 == [b |-> b, added |-> <<>>, panic |-> NoPanic]
             w1 == groupParameters(w0, b.serviceValue)
             w2 == IF w1.panic # NoPanic THEN w1 ELSE defineProviders(w1)
             r == appendErrors(heap, b.errors, w2.added)
             built == [w2.b EXCEPT !.errors = r.s]
         IN  IF w2.panic # NoPanic
             THEN [panic |-> w2.panic, heap |-> r.heap, proc |-> Nil]
             ELSE [panic |-> NoPanic, heap |-> r.heap,
                   proc |-> [ poisoned |-> r.s.len > 0,
                              errors |-> r.s,
                              b |-> built,
                              valueCollectors |->
                                  IF r.s.len > 0 THEN <<>> ELSE buildProcessRequest(built),
                              responseResolvers |->
                                  IF r.s.len > 0 THEN [g \in Groups |-> Absent]
                                  ELSE responseResolvers(built),
                              parametersGroup |->
                                  IF r.s.len > 0 THEN <<>> ELSE parametersGroup(built),
                              errorReturnValueIndex |->
                                  IF r.s.len > 0 THEN -1 ELSE errorReturnValueIndex(built) ]]

----------------------------------------------------------------------------
(* Request time: the value providers.                                      *)
(* A request r has a path, the header map, the query values, the cookies   *)
(* and a body; a body is Nil (no body) or the bytes [codec, val]: a        *)
(* document in the format of codec that holds the value val.               *)

NoBody == [codec |-> Nil, val |-> Nil]

\* Decoder: the value the bytes decode to, or the codec's error
Decode(decoder, bytes) ==
    IF bytes.codec = decoder THEN [err |-> NoError, val |-> bytes.val]
    ELSE [err |-> ForeignError("decode: malformed input"), val |-> Nil]

\* bytes in the format of codec that hold the value val ("raw": val itself)
Bytes(codec, val) == [codec |-> codec, val |-> val]

\* the types xml.Encoder has an element for: it names the element of a
\* top-level value after its type, drilling into pointers and writing a
\* slice of other than bytes element by element, and refuses a type without
\* a name (a slice or array of bytes) and a map
XMLEncodes(t) ==
    /\ Kind(t) # "Map"
    /\ ~(Kind(t) \in {"Slice", "Array"} /\ ElemKind(t) = "Uint8")

\* Encoder on a value of type t: the bytes it writes, or its error with
\* nothing written.  json.Encoder encodes every type of the model.
Encode(encoder, t, val) ==
    IF encoder = "XML" /\ ~XMLEncodes(t)
    THEN [err |-> ForeignError("xml: unsupported type"), bytes |-> NoBody]
    ELSE [err |-> NoError, bytes |-> Bytes(encoder, val)]

RECURSIVE convertLoop(_, _, _, _)
convertLoop(converters, values, i, acc) ==
    IF i > Len(values) THEN [panic |-> NoPanic, err |-> NoError, values |-> acc]
    ELSE LET c == Convert(converters[i], values[i])
         IN  IF c.err # NoError
             THEN [panic |-> NoPanic, err |-> c.err, values |-> acc]
             ELSE convertLoop(converters, values, i + 1, Append(acc, c.value))

\* the closure b.pathParameters applied to the extracted path values
pathParameters(converters, extracted) ==
    IF Len(extracted) # Len(converters)
    THEN [panic |-> NoPanic,
          err |-> InvalidMappingError("unexpected amount of path parameters"),
          values |-> <<>>]
    ELSE convertLoop(converters, extracted, 1, <<>>)

\* the closure that decodes the body and returns the value it had made
\* before decoding
bodyParametersBeforeDecoding(b, body) ==
    LET type == b.parametersBy.m[bodyParametersGroup][1]
    IN  IF body.codec = Nil
        THEN [panic |-> NoPanic, err |-> NoError, values |-> <<Value(type, Nil)>>]
        ELSE [panic |-> NoPanic, err |-> Decode(b.decoder, body).err,
              values |-> <<Value(type, Nil)>>]

\* the closure b.bodyParameters applied to the request body
bodyParameters(b, body) ==
    LET type == b.parametersBy.m[bodyParametersGroup][1]
    IN  IF body.codec = Nil
        THEN [panic |-> NoPanic, err |-> NoError, values |-> <<Value(type, Nil)>>]
        ELSE LET d == Decode(b.decoder, body)
             IN  [panic |-> NoPanic, err |-> d.err, values |-> <<Value(type, d.val)>>]

\* one value collector of buildProcessRequest run on request r:
\* a panic, or the error and the values it returns
valueCollector(b, group, r) ==
    CASE group = pathParametersGroup ->
             LET x == pathValues(b.pathParamsAmount, b.offsets, r.path)
             IN  IF x.fault
                 THEN [panic |-> "slice bounds out of range", err |-> NoError,
                       values |-> <<>>]
                 ELSE pathParameters(b.pathParameters, x.values)
      [] group = headerParametersGroup ->
             [panic |-> NoPanic, err |-> NoError,
              values |-> <<Value(headersType, r.header)>>]
      [] group = queryParametersGroup ->
             [panic |-> NoPanic, err |-> NoError,
              values |-> <<Value(urlQueryType, r.query)>>]
      [] group = cookieParametersGroup ->
             [panic |-> NoPanic, err |-> NoError,
              values |-> <<Value(cookiesType, r.cookies)>>]
      [] group = bodyParametersGroup -> bodyParameters(b, r.body)

\* reflect.Value.Call: the handler returns, for each output, a constant of
\* its own ([from |-> 0, v |-> ...]) or the argument at position from.
\* A wrong number or type of arguments is a panic.
Call(serviceValue, invokeValues) ==
    IF \/ Len(invokeValues) # Len(serviceValue.in)
       \/ \E i \in 1..Len(invokeValues) : invokeValues[i].type # serviceValue.in[i]
    THEN [panic |-> "reflect: Call with wrong arguments", results |-> <<>>]
    ELSE [panic |-> NoPanic,
          results |-> [i \in 1..Len(serviceValue.out) |->
                          IF serviceValue.ret[i].from = 0
                          THEN Value(serviceValue.out[i], serviceValue.ret[i].v)
                          ELSE Value(serviceValue.out[i],
                                     invokeValues[serviceValue.ret[i].from].v)]]

----------------------------------------------------------------------------
(* Request time: the response resolvers.  What a resolver does to the      *)
(* response is a sequence of events [op, k, v] on the ResponseWriter.      *)

Event(op, k, v) == [op |-> op, k |-> k, v |-> v]

\* the events as they reach the ResponseWriter, each with the response
\* group whose resolver (for the error group: the error mapper) made it
From(group, events) ==
    [j \in 1..Len(events) |->
        [by |-> group, op |-> events[j].op, k |-> events[j].k, v |-> events[j].v]]

\* a returned http.Header: a nil map, or its entries, each a name with its
\* list of values
NilHeader == [isNil |-> TRUE, m |-> <<>>]

Header(entries) == [isNil |-> FALSE, m |-> entries]

\* the closure b.responseHeaderParameters: the returned map, nil for a nil
\* map; the range over either visits nothing
responseHeaderParameters(value) == IF value.v.isNil THEN <<>> ELSE value.v.m

\* w.Header().Add(header, value[1:]) for the values from position j on; an
\* empty value cannot be sliced by value[1:]
RECURSIVE addedEvents(_, _, _)
addedEvents(h, j, acc) ==
    IF j > Len(h.values) THEN [panic |-> NoPanic, events |-> acc]
    ELSE IF h.values[j] = <<>>
    THEN [panic |-> "slice bounds out of range", events |-> acc]
    ELSE addedEvents(h, j + 1,
             Append(acc, Event("Header.Add", h.name, SliceFrom(h.values[j], 1))))

\* the events of one header of the returned map
headerEvents(h) ==
    addedEvents(h, 1, IF Len(h.values) > 0
                      THEN <<Event("Header.Set", h.name, h.values[1])>> ELSE <<>>)

RECURSIVE headersEvents(_, _, _)
headersEvents(headers, order, acc) ==
    IF order = <<>> THEN [panic |-> NoPanic, events |-> acc]
    ELSE LET e == headerEvents(headers[Head(order)])
         IN  IF e.panic # NoPanic
             THEN [panic |-> e.panic, events |-> acc \o e.events]
             ELSE headersEvents(headers, Tail(order), acc \o e.events)

\* One response resolver run on the return vector: a panic, or the error it
\* returns and its events.  order is the order in which the range over the
\* returned header map visits its entries.
responseResolver(b, resolver, results, order) ==
    LET none == [panic |-> NoPanic, err |-> NoError, events |-> <<>>]
        index == resolver.index
        outOfRange == [none EXCEPT !.panic = "index out of range"]
    IN  CASE resolver.kind = "StatusOK" ->
                 [none EXCEPT !.events = <<Event("WriteHeader", "", 200)>>]
          [] resolver.kind = "ContentType" ->
                 [none EXCEPT !.events =
                     <<Event("Header.Set", "Content-Type", b.contentTypeProvider)>>]
          [] resolver.kind = "Header" ->
                 IF index >= Len(results) THEN outOfRange
                 ELSE LET e == headersEvents(responseHeaderParameters(results[index + 1]),
                                             order, <<>>)
                      IN  [panic |-> e.panic, err |-> NoError, events |-> e.events]
          [] resolver.kind = "StatusCode" ->
                 IF index >= Len(results) THEN outOfRange
                 ELSE [none EXCEPT !.events =
                          <<Event("WriteHeader", "", results[index + 1].v)>>]
          [] resolver.kind = "Cookie" ->
                 IF index >= Len(results) THEN outOfRange
                 ELSE [none EXCEPT !.events =
                          [j \in 1..Len(results[index + 1].v) |->
                              Event("SetCookie", "Set-Cookie", results[index + 1].v[j])]]
          [] resolver.kind = "BodyEncoder" ->
                 IF index >= Len(results) THEN outOfRange
                 ELSE IF Kind(results[index + 1].type) = "Ptr" /\ results[index + 1].v = Nil
                 THEN none
                 ELSE LET e == Encode(b.encoder, results[index + 1].type,
                                      results[index + 1].v)
                      IN  IF e.err # NoError THEN [none EXCEPT !.err = e.err]
                          ELSE [none EXCEPT !.events = <<Event("Write", "", e.bytes)>>]
          [] resolver.kind \in {"BodyString", "BodySlice"} ->
                 \* b.encoder(w) is called, with b.encoder nil, before
                 \* results[index] is read
                 [none EXCEPT !.panic = "nil pointer dereference"]
          [] resolver.kind = "BodyArray" ->
                 IF index >= Len(results) THEN outOfRange
                 ELSE [none EXCEPT !.events =
                          <<Event("Write", "", Bytes("raw", results[index + 1].v))>>]

\* the orders in which a resolver may range over the returned header map
RECURSIVE Perms(_)
Perms(S) ==
    IF S = {} THEN {<<>>}
    ELSE UNION {{<<x>> \o p : p \in Perms(S \ {x})} : x \in S}

rangeOrders(resolver, results) ==
    IF resolver.kind = "Header" /\ resolver.index < Len(results)
    THEN Perms(1..Len(responseHeaderParameters(results[resolver.index + 1])))
    ELSE {<<>>}

\* error mappers of which the default one writes the message with the
\* status left at 200 and hands the error back to the caller of Handle
errorMapperHandingBack(mapper, err) ==
    IF mapper = "DefaultErrorMapper"
    THEN [events |-> << Event("WriteHeader", "", 200),
                        Event("Write", "", Bytes("raw", <<err>>)) >>,
          ret |-> ForeignError(err)]
    ELSE IF mapper = "custom"
    THEN [events |-> << Event("Header.Set", "k1", "v1"),
                        Event("WriteHeader", "", 400) >>,
          ret |-> NoError]
    ELSE [events |-> <<>>, ret |-> ForeignError("returned by the error mapper")]

\* An error mapper run on err: its events and its return value.
\* DefaultErrorMapper is http.Error with status 500; "custom" is the mapper
\* of TestErrorMapper, which sets a header and the status 400 and returns
\* nil; "returning" is a mapper that writes nothing and returns an error.
errorMapper(mapper, err) ==
    IF mapper = "DefaultErrorMapper"
    THEN [events |-> << Event("Header.Set", "Content-Type", "text/plain; charset=utf-8"),
                        Event("Header.Set", "X-Content-Type-Options", "nosniff"),
                        Event("WriteHeader", "", 500),
                        Event("Write", "", Bytes("raw", <<err, "\n">>)) >>,
          ret |-> NoError]
    ELSE IF mapper = "custom"
    THEN [events |-> << Event("Header.Set", "k1", "v1"),
                        Event("WriteHeader", "", 400) >>,
          ret |-> NoError]
    ELSE [events |-> <<>>, ret |-> ForeignError("returned by the error mapper")]

----------------------------------------------------------------------------
(* The state machine: the builder operations.                              *)

DecoderChoices == {"JSON"}
EncoderChoices == {"JSON"}
ContentTypeChoices == {"application/xml; charset=utf-8"}
ErrorMapperChoices == {"custom", "returning"}

CanDerive(i) ==
    /\ fault = NoPanic
    /\ i \in 1..Len(builders)
    /\ Len(builders) < MaxBuilders

\* the program keeps the builder value an operation returned
Keep(r) ==
    /\ builders' = Append(builders, r.b)
    /\ arrays' = r.heap
    /\ UNCHANGED <<procs, calls, fault>>

DoBefore(i) == CanDerive(i) /\ Keep(Before(arrays, builders[i]))

DoAfter(i) == CanDerive(i) /\ Keep(After(arrays, builders[i]))

DoDecoder(i, decoder) == CanDerive(i) /\ Keep(Decoder(arrays, builders[i], decoder))

DoEncoder(i, encoder) == CanDerive(i) /\ Keep(Encoder(arrays, builders[i], encoder))

DoResponseContentType(i, setter) ==
    CanDerive(i) /\ Keep(ResponseContentType(arrays, builders[i], setter))

DoErrorMapping(i, mapper) ==
    CanDerive(i) /\ Keep(ErrorMapping(arrays, builders[i], mapper))

DoHandler(i, service) == CanDerive(i) /\ Keep(Handler(arrays, builders[i], service))

\* Build on builder i: the processor is kept, or the program panics
DoBuild(i) ==
    /\ fault = NoPanic
    /\ i \in 1..Len(builders)
    /\ Len(procs) < MaxProcs
    /\ LET r == Build(arrays, builders[i])
       IN  /\ arrays' = r.heap
           /\ IF r.panic # NoPanic
              THEN fault' = r.panic /\ procs' = procs
              ELSE fault' = fault /\ procs' = Append(procs, r.proc)
    /\ UNCHANGED <<builders, calls>>

----------------------------------------------------------------------------
(* The state machine: EndpointProcessor.Handle, step by step.  A call      *)
(* keeps the request-local state of one invocation: the argument vector    *)
(* invokeValues, the return vector results, the events on its response     *)
(* writer w, and the error Handle returned (ret) once pc is "done".       *)

NewCall(p, r) ==
    [ proc |-> p, r |-> r, pc |-> "collect", next |-> 1,
      invokeValues |-> <<>>, called |-> FALSE, results |-> <<>>,
      executionError |-> NoError, w |-> <<>>, ret |-> NoError ]

\* Handle without its look at the build errors
HandleBeginNoErrorsCheck(p, r) ==
    /\ fault = NoPanic
    /\ p \in 1..Len(procs)
    /\ calls' = Append(calls, NewCall(p, r))
    /\ UNCHANGED <<builders, arrays, procs, fault>>

\* Handle is entered; a processor with build errors returns the first one
HandleBegin(p, r) ==
    /\ fault = NoPanic
    /\ p \in 1..Len(procs)
    /\ calls' = Append(calls,
          IF procs[p].poisoned
          THEN [NewCall(p, r) EXCEPT !.pc = "done",
                                     !.ret = Elems(arrays, procs[p].errors)[1]]
          ELSE NewCall(p, r))
    /\ UNCHANGED <<builders, arrays, procs, fault>>

\* processRequest with one argument vector for all its invocations: what a
\* collector returns is appended for every call that is collecting
CollectShared(c) ==
    /\ fault = NoPanic
    /\ c \in 1..Len(calls)
    /\ calls[c].pc = "collect"
    /\ calls[c].next <= Len(procs[calls[c].proc].valueCollectors)
    /\ LET ep == procs[calls[c].proc]
           x == valueCollector(ep.b, ep.valueCollectors[calls[c].next], calls[c].r)
       IN  IF x.panic # NoPanic
           THEN fault' = x.panic /\ calls' = calls
           ELSE /\ fault' = fault
                /\ calls' = [d \in 1..Len(calls) |->
                      IF d = c /\ x.err # NoError
                      THEN [calls[d] EXCEPT !.pc = "respond", !.executionError = x.err]
                      ELSE IF d = c
                      THEN [calls[d] EXCEPT !.next = @ + 1, !.invokeValues = @ \o x.values]
                      ELSE IF x.err = NoError /\ calls[d].pc = "collect"
                              /\ calls[d].proc = calls[c].proc
                      THEN [calls[d] EXCEPT !.invokeValues = @ \o x.values]
                      ELSE calls[d]]
    /\ UNCHANGED <<builders, arrays, procs>>

\* processRequest: the next value collector runs
Collect(c) ==
    /\ fault = NoPanic
    /\ c \in 1..Len(calls)
    /\ calls[c].pc = "collect"
    /\ calls[c].next <= Len(procs[calls[c].proc].valueCollectors)
    /\ LET ep == procs[calls[c].proc]
           x == valueCollector(ep.b, ep.valueCollectors[calls[c].next], calls[c].r)
       IN  IF x.panic # NoPanic
           THEN fault' = x.panic /\ calls' = calls
           ELSE /\ fault' = fault
                /\ calls' = [calls EXCEPT ![c] =
                      IF x.err # NoError
                      THEN [@ EXCEPT !.pc = "respond", !.executionError = x.err]
                      ELSE [@ EXCEPT !.next = @ + 1,
                                     !.invokeValues = @ \o x.values]]
    /\ UNCHANGED <<builders, arrays, procs>>

\* processRequest: every collector has run, the handler is called
CallService(c) ==
    /\ fault = NoPanic
    /\ c \in 1..Len(calls)
    /\ calls[c].pc = "collect"
    /\ calls[c].next > Len(procs[calls[c].proc].valueCollectors)
    /\ LET x == Call(procs[calls[c].proc].b.serviceValue, calls[c].invokeValues)
       IN  IF x.panic # NoPanic
           THEN fault' = x.panic /\ calls' = calls
           ELSE /\ fault' = fault
                /\ calls' = [calls EXCEPT ![c] =
                      [@ EXCEPT !.pc = "respond", !.called = TRUE,
                                !.results = x.results]]
    /\ UNCHANGED <<builders, arrays, procs>>

\* produceResponse is entered: a non-nil error return goes to the error
\* mapper, anything else to the resolvers
Respond(c) ==
    /\ fault = NoPanic
    /\ c \in 1..Len(calls)
    /\ calls[c].pc = "respond"
    /\ LET ep == procs[calls[c].proc]
           index == ep.errorReturnValueIndex
       IN  IF index = -1
           THEN /\ fault' = fault
                /\ calls' = [calls EXCEPT ![c] = [@ EXCEPT !.pc = "resolve", !.next = 1]]
           ELSE IF index >= Len(calls[c].results)
           THEN fault' = "index out of range" /\ calls' = calls
           ELSE IF calls[c].results[index + 1].v = Nil
           THEN /\ fault' = fault
                /\ calls' = [calls EXCEPT ![c] = [@ EXCEPT !.pc = "resolve", !.next = 1]]
           ELSE LET m == errorMapper(ep.b.responseErrorParameters,
                                     calls[c].results[index + 1].v)
                IN  /\ fault' = fault
                    /\ calls' = [calls EXCEPT ![c] =
                          [@ EXCEPT !.pc = "done", !.w = @ \o From(responseErrorParametersGroup, m.events),
                                    !.ret = m.ret]]
    /\ UNCHANGED <<builders, arrays, procs>>

\* defaultResponseProcessor: the next resolver of the canonical order runs
Resolve(c) ==
    /\ fault = NoPanic
    /\ c \in 1..Len(calls)
    /\ calls[c].pc = "resolve"
    /\ LET ep == procs[calls[c].proc]
           resolver == ep.responseResolvers[ep.parametersGroup[calls[c].next]]
       IN  \E order \in rangeOrders(resolver, calls[c].results) :
              LET x == responseResolver(ep.b, resolver, calls[c].results, order)
                  last == calls[c].next = Len(ep.parametersGroup)
              IN  /\ fault' = IF x.panic # NoPanic THEN x.panic ELSE fault
                  /\ calls' = [calls EXCEPT ![c] =
                        [@ EXCEPT !.w = @ \o From(ep.parametersGroup[calls[c].next], x.events),
                                  !.next = @ + 1,
                                  !.ret = x.err,
                                  !.pc = IF x.panic = NoPanic /\ (x.err # NoError \/ last)
                                         THEN "done" ELSE @]]
    /\ UNCHANGED <<builders, arrays, procs>>

----------------------------------------------------------------------------
(* The inputs of the model.                                                *)

TplNone == <<"/", "a">>
TplOne == <<"/", ":", "a">>
TplTwo == <<"/", ":", "a", "/", ":", "b">>

Func(in, out, ret) == [kind |-> "func", in |-> in, out |-> out, ret |-> ret]

\* a service that is not a function: the value v
NonFunc(v) == [kind |-> "nonfunc", v |-> v]

Const(v) == [from |-> 0, v |-> v]

Arg(i) == [from |-> i, v |-> Nil]

Request(path, body) ==
    [path |-> path, header |-> "h1", query |-> "q1", cookies |-> "c1", body |-> body]

\* a fluent chain of builder operations, from the builder b on the heap
RECURSIVE Chain(_, _, _)
Chain(heap, b, ops) ==
    IF ops = <<>> THEN [heap |-> heap, b |-> b]
    ELSE LET o == Head(ops)
             r == CASE o.op = "Decoder" -> Decoder(heap, b, o.arg)
                    [] o.op = "Encoder" -> Encoder(heap, b, o.arg)
                    [] o.op = "ResponseContentType" -> ResponseContentType(heap, b, o.arg)
                    [] o.op = "ErrorMapping" -> ErrorMapping(heap, b, o.arg)
                    [] o.op = "Handler" -> Handler(heap, b, o.arg)
         IN  Chain(r.heap, r.b, Tail(ops))

Op(op, arg) == [op |-> op, arg |-> arg]

\* GET(t).Decoder(d).Handler(h).ResponseContentType(ct).Encoder(e).ErrorMapping(em),
\* each operation left out when its argument is Nil
Configured(t, d, h, ct, e, em) ==
    Chain(<<>>, newBuilder(t),
          (IF d # Nil THEN <<Op("Decoder", d)>> ELSE <<>>)
          \o <<Op("Handler", h)>>
          \o (IF ct # Nil THEN <<Op("ResponseContentType", ct)>> ELSE <<>>)
          \o (IF e # Nil THEN <<Op("Encoder", e)>> ELSE <<>>)
          \o (IF em # Nil THEN <<Op("ErrorMapping", em)>> ELSE <<>>))

\* the program holds the one builder such a chain returned
InitWith(configurations) ==
    /\ \E c \in configurations : builders = <<c.b>> /\ arrays = c.heap
    /\ procs = <<>>
    /\ calls = <<>>
    /\ fault = NoPanic

\* the sequences over S of length at most n
RECURSIVE SeqsUpTo(_, _)
SeqsUpTo(S, n) ==
    IF n = 0 THEN {<<>>}
    ELSE LET shorter == SeqsUpTo(S, n - 1)
         IN  shorter \cup {Append(q, x) : q \in shorter, x \in S}

\* the value a handler of the model returns for an output of a type
ReturnFor(type) ==
    CASE type = httpStatusType -> Const(208)
      [] type = errorType -> Const(Nil)
      [] type = headersType -> Const(Header(<<>>))
      [] type = cookiesType -> Const(<<>>)
      [] OTHER -> Const(<<"u">>)

FuncOf(in, out) == Func(in, out, [i \in 1..Len(out) |-> ReturnFor(out[i])])

BuildAny == \E i \in 1..Len(builders) : DoBuild(i)

AllDone == \A c \in 1..Len(calls) : calls[c].pc = "done"

\* at most n Handle invocations, one after the other, on requests of the
\* set given
HandleSeq(requests, n) ==
    \/ \E p \in 1..Len(procs), r \in requests :
           Len(calls) < n /\ AllDone /\ HandleBegin(p, r)
    \/ \E c \in 1..Len(calls) : Collect(c) \/ CallService(c) \/ Respond(c) \/ Resolve(c)

----------------------------------------------------------------------------
(* Introspection: Build on handlers of every shape.                        *)

MaxIn == 3

InTypes == {"int", "[]int", "Key", "ConvStruct", headersType, urlQueryType, cookiesType}

OutLists ==
    { <<>>, <<"int">>, <<"Key", "error">>, <<"int", "int">>,
      <<headersType, headersType>>, <<cookiesType, "int", cookiesType>>,
      <<"error", "error">>, <<"Key", "Key">> }

ConfigurationsBuild ==
    { Configured(t, d, FuncOf(in, out), Nil, Nil, Nil) :
        t \in {TplNone, TplOne, TplTwo}, d \in {Nil, "JSON"},
        in \in SeqsUpTo(InTypes, MaxIn), out \in OutLists }

InitBuild == InitWith(ConfigurationsBuild)

NextBuild == BuildAny

SpecBuild == InitBuild /\ [][NextBuild]_vars

----------------------------------------------------------------------------
(* Handle, several times over, on processors with and without build       *)
(* errors, and on requests the providers accept and reject.               *)

MaxInHandle == 2

InTypesHandle == {"int", "Key", headersType}

ConfigurationsHandle ==
    { Configured(t, d, FuncOf(in, out), Nil, Nil, Nil) :
        t \in {TplNone, TplOne}, d \in {Nil, "JSON"},
        in \in SeqsUpTo(InTypesHandle, MaxInHandle), out \in OutLists }

RequestsHandle ==
    { Request(<<"/", "7", "/", "8">>, NoBody),
      Request(<<"/", "x", "/", "8">>, Bytes("XML", "k")) }

InitHandle == InitWith(ConfigurationsHandle)

NextHandle == BuildAny \/ HandleSeq(RequestsHandle, MaxCalls)

SpecHandle == InitHandle /\ [][NextHandle]_vars

----------------------------------------------------------------------------
(* Argument passing: handlers that take path parameters and then the      *)
(* header map, the query values, the cookies and the body in every order. *)

\* the sequences without repetition over the set S
Arrangements(S) == UNION {Perms(T) : T \in SUBSET S}

PathInTypes == {"int", "string"}

OtherInTypes == {headersType, urlQueryType, cookiesType, "Key"}

\* a template of k parameter slots
RECURSIVE TemplateOf(_)
TemplateOf(k) ==
    IF k = 0 THEN TplNone
    ELSE IF k = 1 THEN TplOne
    ELSE TemplateOf(k - 1) \o <<"/", ":", "b">>

MaxSlots == 2

ConfigurationsRequest ==
    { Configured(TemplateOf(Len(path)), "JSON", FuncOf(path \o others, <<>>), Nil, Nil, Nil) :
        path \in SeqsUpTo(PathInTypes, MaxSlots), others \in Arrangements(OtherInTypes) }

RequestsRequest ==
    { Request(<<"/", "7", "/", "8", "/", "9">>, Bytes("JSON", "k")),
      Request(<<"/", "1", "2", "/", "0", "/", "3">>, NoBody),
      Request(<<"/", "7", "/", "8", "/", "9">>, Bytes("XML", "k")) }

InitRequest == InitWith(ConfigurationsRequest)

NextRequest == BuildAny \/ HandleSeq(RequestsRequest, MaxSequential)

SpecRequest == InitRequest /\ [][NextRequest]_vars

----------------------------------------------------------------------------
(* Responses: handlers that return a header map, cookies, a status code,   *)
(* a body and an error in every order.                                     *)

OutTypes == {headersType, cookiesType, httpStatusType, "Key", errorType}

ReturnedHeaders ==
    << [name |-> "X-A", values |-> << <<"a", "b">>, <<"c">> >>],
       [name |-> "Content-Type", values |-> << <<"t", "x">> >>] >>

ReturnedErrors == {Nil, "boom"}

\* the value a handler returns for an output of a type, err for its error
ResponseFor(type, err) ==
    CASE type = httpStatusType -> Const(208)
      [] type = errorType -> Const(err)
      [] type = headersType -> Const(Header(ReturnedHeaders))
      [] type = cookiesType -> Const(<<"c1", "c2">>)
      [] OTHER -> Const("u")

\* every handler under every configuration, the error mapper that returns
\* an error only where it is run: under handlers that return an error
ConfigurationsResponse ==
    LET all == { [ cfg |-> Configured(TplNone, Nil,
                              Func(<<>>, out,
                                   [i \in 1..Len(out) |-> ResponseFor(out[i], err)]),
                              ct, e, em),
                   run |-> (\E i \in 1..Len(out) : out[i] = errorType) /\ err # Nil,
                   em |-> em ] :
                   out \in Arrangements(OutTypes), err \in ReturnedErrors,
                   ct \in ContentTypeChoices \cup {Nil}, e \in EncoderChoices \cup {Nil},
                   em \in ErrorMapperChoices \cup {Nil} }
    IN  { c.cfg : c \in { d \in all : d.em = "returning" => d.run } }

RequestsResponse == { Request(<<"/", "a">>, NoBody) }

InitResponse == InitWith(ConfigurationsResponse)

NextResponse == BuildAny \/ HandleSeq(RequestsResponse, MaxSequential)

SpecResponse == InitResponse /\ [][NextResponse]_vars

----------------------------------------------------------------------------
(* Concurrency: Handle invocations on one processor that overlap, on       *)
(* handlers that return what they were given.                              *)

\* Handle invocations that may begin while others are under way
HandleConcurrently(requests) ==
    \/ \E p \in 1..Len(procs), r \in requests :
           Len(calls) < MaxCalls /\ HandleBegin(p, r)
    \/ \E c \in 1..Len(calls) : Collect(c) \/ CallService(c) \/ Respond(c) \/ Resolve(c)

ConfigurationsConcurrent ==
    { Configured(TplOne, "JSON", h, Nil, "JSON", Nil) :
        h \in { Func(<<"int", "Key">>, <<"int", "Key">>, <<Arg(1), Arg(2)>>),
                Func(<<"string", headersType, "Key">>, <<"Key">>, <<Arg(1)>>),
                Func(<<"int", "Key", cookiesType>>, <<"Key", "int">>, <<Arg(2), Arg(1)>>) } }

RequestsConcurrent ==
    { Request(<<"/", "7">>, Bytes("JSON", "k")),
      Request(<<"/", "8">>, Bytes("JSON", "m")),
      Request(<<"/", "9">>, Bytes("XML", "k")) }

InitConcurrent == InitWith(ConfigurationsConcurrent)

NextConcurrent == BuildAny \/ HandleConcurrently(RequestsConcurrent)

SpecConcurrent == InitConcurrent /\ [][NextConcurrent]_vars

----------------------------------------------------------------------------
(* Path templates and request paths of every shape: each template with a   *)
(* handler of one string per parameter slot.                               *)

MaxTemplateLen == 6

MaxPathLen == 6

TemplatesPath == SeqsUpTo({"/", ":", "a"}, MaxTemplateLen)

PathsPath == SeqsUpTo({"/", "x"}, MaxPathLen)

ConfigurationsPath ==
    { Configured(t, Nil,
                 FuncOf([i \in 1..Count(t, pathTemplateStart) |-> "string"], <<>>),
                 Nil, Nil, Nil) : t \in TemplatesPath }

RequestsPath == {Request(path, NoBody) : path \in PathsPath}

InitPath == InitWith(ConfigurationsPath)

NextPath == BuildAny \/ HandleSeq(RequestsPath, MaxSequential)

SpecPath == InitPath /\ [][NextPath]_vars

\* one Handle of a processor on a request whose path is the template its
\* builder was made of
HandleOwnTemplate ==
    \/ \E p \in 1..Len(procs), t \in TemplatesPath :
           /\ calls = <<>>
           /\ procs[p].b.pathParamsAmount = Count(t, pathTemplateStart)
           /\ procs[p].b.offsets = pathValueSegmentOffsets(t)
           /\ HandleBegin(p, Request(t, NoBody))
    \/ \E c \in 1..Len(calls) : Collect(c) \/ CallService(c) \/ Respond(c) \/ Resolve(c)

NextOwnTemplate == BuildAny \/ HandleOwnTemplate

SpecOwnTemplate == InitPath /\ [][NextOwnTemplate]_vars

----------------------------------------------------------------------------
(* Conversion: handlers of path parameters of every convertible type, on   *)
(* segments that do and do not parse.                                      *)

PathTypesConvert ==
    {"int", "int8", "uint16", "bool", "string", "UserDefinedPathType", "ConvStruct"}

SegmentsConvert ==
    { <<"7">>, <<"x">>, <<"t">>, <<"1", "2", "9">>, <<"-", "7">>,
      <<"2", "1", "4", "7", "4", "8", "3", "6", "4", "8">> }

ConfigurationsConvert ==
    { Configured(TemplateOf(Len(in)), Nil, FuncOf(in, <<>>), Nil, Nil, Nil) :
        in \in SeqsUpTo(PathTypesConvert, MaxSlots) \ {<<>>} }

RequestsConvert ==
    { Request(<<"/">> \o s1 \o <<"/">> \o s2 \o <<"/">> \o s3, NoBody) :
        s1 \in SegmentsConvert, s2 \in SegmentsConvert, s3 \in SegmentsConvert }

InitConvert == InitWith(ConfigurationsConvert)

NextConvert == BuildAny \/ HandleSeq(RequestsConvert, MaxSequential)

SpecConvert == InitConvert /\ [][NextConvert]_vars

----------------------------------------------------------------------------
(* Returned values: handlers that return header maps and bodies of every   *)
(* shape, with and without an encoder.                                     *)

BodyTypesValues == {"string", "[]byte", "[2]byte", "Key"}

\* the header maps a handler returns: nil, empty, one name with two values,
\* one name with an empty value after a value, a name with no value
ReturnedHeaderMaps ==
    { NilHeader, Header(<<>>),
      Header(<< [name |-> "X-A", values |-> << <<"a", "b">>, <<"c">> >>] >>),
      Header(<< [name |-> "X-A", values |-> << <<"a">>, <<>> >>] >>),
      Header(<< [name |-> "X-A", values |-> << <<"a">> >>],
                [name |-> "X-B", values |-> << >>] >>) }

\* the value a handler returns for an output of a type, headers for its
\* header map
ValueFor(type, headers) ==
    CASE type = httpStatusType -> Const(208)
      [] type = headersType -> Const(headers)
      [] type = "Key" -> Const("u")
      [] OTHER -> Const(<<"h", "i">>)

ConfigurationsValues ==
    { Configured(TplNone, Nil,
                 Func(<<>>, out, [i \in 1..Len(out) |-> ValueFor(out[i], headers)]),
                 Nil, e, Nil) :
        out \in UNION {Arrangements({headersType, httpStatusType, bt}) :
                          bt \in BodyTypesValues},
        headers \in ReturnedHeaderMaps, e \in EncoderChoices \cup {Nil} }

InitValues == InitWith(ConfigurationsValues)

NextValues == BuildAny \/ HandleSeq(RequestsResponse, MaxSequential)

SpecValues == InitValues /\ [][NextValues]_vars

----------------------------------------------------------------------------
(* Round trips: handlers that return their body input as the response      *)
(* body, under every pair of a decoder and an encoder.                     *)

CodecsRoundTrip == {"JSON", "XML"}

BodyTypesRoundTrip == {"Key", "string", "[]byte"}

\* the values the bodies of the requests hold
ValuesRoundTrip == {"k", "m"}

\* the handlers func(U) U, func(int, U) (int, U) and func(int, U) (U, error),
\* the first for the template without slot, each returning its arguments
HandlersRoundTrip(t, u) ==
    IF t = TplNone
    THEN { Func(<<u>>, <<u>>, <<Arg(1)>>),
           Func(<<u>>, <<errorType, u>>, <<Const(Nil), Arg(1)>>) }
    ELSE { Func(<<"int", u>>, <<"int", u>>, <<Arg(1), Arg(2)>>),
           Func(<<"int", u>>, <<u, errorType>>, <<Arg(2), Const(Nil)>>) }

ConfigurationsRoundTrip ==
    UNION { { Configured(t, d, h, Nil, e, Nil) : h \in HandlersRoundTrip(t, u) } :
              t \in {TplNone, TplOne}, u \in BodyTypesRoundTrip,
              d \in CodecsRoundTrip, e \in CodecsRoundTrip }

RequestsRoundTrip ==
    { Request(<<"/", "7">>, body) :
        body \in {Bytes("JSON", "k"), Bytes("XML", "m"), NoBody} }

InitRoundTrip == InitWith(ConfigurationsRoundTrip)

NextRoundTrip == BuildAny \/ HandleSeq(RequestsRoundTrip, MaxSequential)

SpecRoundTrip == InitRoundTrip /\ [][NextRoundTrip]_vars

----------------------------------------------------------------------------
(* The builder algebra: every operation on every builder the program       *)
(* holds, Build, and Handle on the processors built.                       *)

Services ==
    { NonFunc("1"), NonFunc("s"),
      Func(<<"int">>, <<"int">>, <<Const(208)>>),
      Func(<<"Key">>, <<>>, <<>>) }

Requests ==
    { Request(<<"/", "7">>, NoBody), Request(<<"/", "x">>, NoBody) }

\* the builders the program starts from: a fresh one, one that was given a
\* handler that is no function, or one of a chain that left three errors in
\* a backing array of capacity four
ConfigurationsAlgebra ==
    { Chain(<<>>, newBuilder(t), ops) :
        t \in {TplNone, TplOne},
        ops \in { <<>>,
                  << Op("Handler", NonFunc("1")) >>,
                  << Op("Handler", Func(<<"int">>, <<"int">>, <<Const(208)>>)),
                     Op("Handler", NonFunc("1")), Op("Handler", NonFunc("1")),
                     Op("Handler", NonFunc("s")) >> } }

Init == InitWith(ConfigurationsAlgebra)

Configure ==
    \E i \in 1..Len(builders) :
        \/ DoBefore(i)
        \/ DoAfter(i)
        \/ \E d \in DecoderChoices : DoDecoder(i, d)
        \/ \E e \in EncoderChoices : DoEncoder(i, e)
        \/ \E t \in ContentTypeChoices : DoResponseContentType(i, t)
        \/ \E m \in ErrorMapperChoices : DoErrorMapping(i, m)
        \/ \E s \in Services : DoHandler(i, s)

Next == Configure \/ BuildAny \/ HandleSeq(Requests, MaxCalls)

Spec == Init /\ [][Next]_vars

----------------------------------------------------------------------------
(* The claims.                                                             *)

\* what the claims say of the builder the program was started with
TheHandler == builders[1].serviceValue
NumIn == Len(TheHandler.in)
Slots == builders[1].pathParamsAmount
IsFunc == TheHandler.kind = "func"

\* Build has been called (it returned a processor or it panicked)
BuildReturned == Len(procs) > 0
BuildPanicked == fault # NoPanic /\ procs = <<>>

HasError(ep, generalCause) ==
    \E j \in 1..ep.errors.len : Elems(arrays, ep.errors)[j].GeneralCause = generalCause

\* C3: for a template with N parameter slots and a handler with fewer than N
\* inputs, whatever its outputs, Build does not fault: it returns a processor
\* whose Handle returns an InvalidMapping error.
C3_FewerInputsYieldInvalidMapping ==
    (IsFunc /\ NumIn < Slots) =>
        /\ ~BuildPanicked
        /\ \A p \in 1..Len(procs) : procs[p].poisoned
        /\ \A c \in 1..Len(calls) :
               calls[c].pc = "done" /\ calls[c].ret.GeneralCause = InvalidMapping

\* the inputs of the handler are all of types meant for path positions
PathTyped(t) == t \notin {headersType, urlQueryType, cookiesType}
AllPathTyped == \A i \in 1..NumIn : PathTyped(TheHandler.in[i])

\* the supported set of the specification: the scalar kinds, a slice or
\* array of bytes, or a type that converts itself
InSupportedSet(t) ==
    \/ Kind(t) \in ScalarKinds
    \/ Kind(t) \in {"Slice", "Array"} /\ ElemKind(t) = "Uint8"
    \/ ImplementsPathParameterConverter(t)

BuildSucceeded == BuildReturned /\ \A p \in 1..Len(procs) : ~procs[p].poisoned

\* the outputs of the handler hold at most one value of each response group
OutputsDistinct ==
    \A i, j \in 1..Len(TheHandler.out) :
        i # j => responseGroupOf(TheHandler.out[i]) # responseGroupOf(TheHandler.out[j])

\* C9: for a handler whose n inputs are all path-typed and a template of k
\* slots, Build succeeds iff n = k and every input type is in the supported
\* set.
C9_BuildSucceedsIffArityAndTypes ==
    (IsFunc /\ AllPathTyped /\ OutputsDistinct /\ (BuildReturned \/ BuildPanicked)) =>
        (BuildSucceeded <=>
            (NumIn = Slots /\ \A i \in 1..NumIn : InSupportedSet(TheHandler.in[i])))

\* two or more inputs after the path positions fall in the same group
DuplicatedOtherInput ==
    /\ NumIn >= Slots
    /\ \E i, j \in (Slots + 1)..NumIn :
           i # j /\ otherGroupOf(TheHandler.in[i]) = otherGroupOf(TheHandler.in[j])

\* C10: a handler with two or more inputs of the same non-path group after
\* its path positions makes Build yield a processor that carries an
\* InvalidMapping error.
C10_DuplicateInputIsInvalidMapping ==
    (IsFunc /\ DuplicatedOtherInput) =>
        /\ ~BuildPanicked
        /\ \A p \in 1..Len(procs) :
               procs[p].poisoned /\ HasError(procs[p], InvalidMapping)

\* a processor was built from a handler with two header maps after its path
\* parameter
C10_Witness ==
    /\ IsFunc /\ BuildReturned /\ Slots = 1
    /\ TheHandler.in = <<"int", headersType, headersType>>
    /\ procs[1].poisoned /\ HasError(procs[1], InvalidMapping)

\* the first error the builder chain recorded
FirstError(ep) == Elems(arrays, ep.errors)[1]

\* C2: on a processor built from a builder that recorded errors, every call
\* of Handle returns the first recorded error, the same for every call,
\* without calling the handler and without writing a response.
C2_PoisonedHandleReturnsFirstError ==
    \A c \in 1..Len(calls) :
        procs[calls[c].proc].poisoned =>
            /\ calls[c].pc = "done"
            /\ calls[c].ret # NoError
            /\ calls[c].ret = FirstError(procs[calls[c].proc])
            /\ ~calls[c].called
            /\ calls[c].invokeValues = <<>>
            /\ calls[c].w = <<>>
            /\ \A d \in 1..Len(calls) :
                   calls[d].proc = calls[c].proc => calls[d].ret = calls[c].ret

\* Handle returned twice, on different requests, from a processor holding
\* more than one build error
C2_Witness ==
    /\ Len(calls) = 2
    /\ procs[1].poisoned /\ procs[1].errors.len > 1
    /\ calls[1].pc = "done" /\ calls[2].pc = "done"
    /\ calls[1].r # calls[2].r
    /\ calls[1].ret = FirstError(procs[1]) /\ calls[2].ret = calls[1].ret

\* C1: when a request provider fails during Handle, Handle returns that
\* provider's error, the handler is not invoked and no response resolver
\* runs: nothing is written to the response.
C1_ProviderErrorIsReturned ==
    \A c \in 1..Len(calls) :
        calls[c].executionError # NoError =>
            /\ fault = NoPanic
            /\ ~calls[c].called
            /\ calls[c].pc # "resolve"
            /\ calls[c].w = <<>>
            /\ calls[c].pc = "done" => calls[c].ret = calls[c].executionError

\* the i-th "/"-separated segment of a path that starts with "/"
RECURSIVE Segment(_, _)
Segment(path, i) ==
    LET rest == Tail(path)
        stop == Index(rest, <<"/">>)
        first == IF stop = -1 THEN rest ELSE SubSeq(rest, 1, stop)
    IN  IF i = 1 THEN first ELSE Segment(SubSeq(rest, stop + 1, Len(rest)), i - 1)

\* the argument a handler is to get at position i of its inputs in, of which
\* the first k are path parameters, on request r
ExpectedArgument(in, k, i, r) ==
    IF i <= k THEN Convert(converterOf(in[i]), Segment(r.path, i)).value
    ELSE CASE in[i] = headersType -> Value(headersType, r.header)
           [] in[i] = urlQueryType -> Value(urlQueryType, r.query)
           [] in[i] = cookiesType -> Value(cookiesType, r.cookies)
           [] OTHER -> Value(in[i], r.body.val)

\* the group whose provider is to run i-th for the inputs in
ExpectedProvider(in, k, i) ==
    IF k > 0 /\ i = 1 THEN pathParametersGroup
    ELSE otherGroupOf(in[IF k > 0 THEN k + i - 1 ELSE i])

\* C8: a handler whose inputs are N path parameters followed by any
\* arrangement of at most one each of header map, query values, cookie list
\* and body is built without error, its providers are in the declared
\* order, and it is called with the converted path values at positions
\* 1..N in template order and every other value at the position where its
\* type is declared.
C8_ArgumentsAtDeclaredPositions ==
    /\ fault # "reflect: Call with wrong arguments"
    /\ \A p \in 1..Len(procs) :
           LET in == procs[p].b.serviceValue.in
               k == procs[p].b.pathParamsAmount
               n == Len(in) - k + (IF k > 0 THEN 1 ELSE 0)
           IN  /\ ~procs[p].poisoned
               /\ Len(procs[p].valueCollectors) = n
               /\ \A i \in 1..n : procs[p].valueCollectors[i] = ExpectedProvider(in, k, i)
    /\ \A c \in 1..Len(calls) :
           calls[c].called =>
               LET in == procs[calls[c].proc].b.serviceValue.in
                   k == procs[calls[c].proc].b.pathParamsAmount
               IN  /\ Len(calls[c].invokeValues) = Len(in)
                   /\ \A i \in 1..Len(in) :
                          calls[c].invokeValues[i] = ExpectedArgument(in, k, i, calls[c].r)

\* a handler of two path parameters and then cookies, body, query values and
\* header map was called with a decoded body
C8_Witness ==
    \E c \in 1..Len(calls) :
        /\ calls[c].called
        /\ procs[calls[c].proc].b.serviceValue.in =
               <<"string", "int", cookiesType, "Key", urlQueryType, headersType>>
        /\ calls[c].r.body.codec = "JSON"
        /\ calls[c].invokeValues[2].v = Number(FALSE, <<"8">>)
        /\ calls[c].invokeValues[4] = Value("Key", "k")

\* the place of a response group in the order of the specification:
\* Content-Type, headers, cookies, status code, body
Rank(group) ==
    CASE group = responseContentTypeParametersGroup -> 1
      [] group = responseHeaderParametersGroup -> 2
      [] group = responseCookieParametersGroup -> 3
      [] group = responseStatusCodeParametersGroup -> 4
      [] group = responseBodyParametersGroup -> 5
      [] OTHER -> 6

\* the error the handler of a call returned in its error output, or Nil
ReturnedError(c) ==
    LET out == procs[calls[c].proc].b.serviceValue.out
        at == {i \in 1..Len(out) : out[i] = errorType}
    IN  IF at = {} \/ ~calls[c].called THEN Nil
        ELSE calls[c].results[CHOOSE i \in at : TRUE].v

\* the call went to the resolvers, not to the error mapper: the handler
\* returned no error and the error mapper wrote nothing
NonErrorPath(c) ==
    /\ ReturnedError(c) = Nil
    /\ \A j \in 1..Len(calls[c].w) : calls[c].w[j].by # responseErrorParametersGroup

\* C4: on the non-error path the effects on the response come in the order
\* Content-Type header, returned headers, cookies, status code, body,
\* whatever the order of the handler's outputs: the status is written
\* before any body byte and Content-Type is set before the status.
C4_ResponseEffectsInCanonicalOrder ==
    \A c \in 1..Len(calls) :
        NonErrorPath(c) =>
            LET w == calls[c].w
            IN  /\ \A i, j \in 1..Len(w) : i < j => Rank(w[i].by) <= Rank(w[j].by)
                /\ \A j \in 1..Len(w) :
                       w[j].op = "Write" => \E i \in 1..(j - 1) : w[i].op = "WriteHeader"
                /\ \A j \in 1..Len(w) :
                       w[j].by = responseContentTypeParametersGroup =>
                           \A i \in 1..j : w[i].op # "WriteHeader"
                /\ calls[c].pc = "done" /\ calls[c].called =>
                       \A g \in Groups :
                           procs[calls[c].proc].responseResolvers[g] # Absent
                               => \E j \in 1..Len(w) : w[j].by = g

\* a handler that declares body, status code, cookies and header map in
\* that order has answered: all five groups wrote, the body last
C4_Witness ==
    \E c \in 1..Len(calls) :
        /\ calls[c].pc = "done" /\ calls[c].called /\ NonErrorPath(c)
        /\ procs[calls[c].proc].b.serviceValue.out =
               <<"Key", httpStatusType, cookiesType, headersType>>
        /\ {calls[c].w[j].by : j \in 1..Len(calls[c].w)} =
               {responseContentTypeParametersGroup, responseHeaderParametersGroup,
                responseCookieParametersGroup, responseStatusCodeParametersGroup,
                responseBodyParametersGroup}
        /\ calls[c].w[Len(calls[c].w)].op = "Write"

\* the error mapper the builder of a processor was configured with
ConfiguredMapper(ep) ==
    IF ep.b.errorMapper = Nil THEN "DefaultErrorMapper" ELSE ep.b.errorMapper

\* C5: when the handler returns a non-nil error in its error output, Handle
\* runs the configured error mapper (the default one when none was
\* configured) on that error and nothing else, and returns what the mapper
\* returns; when the error is nil the resolvers run instead.
C5_ErrorGoesToTheErrorMapper ==
    \A c \in 1..Len(calls) :
        (calls[c].called /\ calls[c].pc = "done") =>
            IF ReturnedError(c) # Nil
            THEN LET m == errorMapper(ConfiguredMapper(procs[calls[c].proc]), ReturnedError(c))
                 IN  /\ Len(calls[c].w) = Len(m.events)
                     /\ \A j \in 1..Len(m.events) :
                            /\ calls[c].w[j].by = responseErrorParametersGroup
                            /\ calls[c].w[j].op = m.events[j].op
                            /\ calls[c].w[j].k = m.events[j].k
                            /\ calls[c].w[j].v = m.events[j].v
                     /\ calls[c].ret = m.ret
            ELSE /\ NonErrorPath(c)
                 /\ calls[c].w # <<>>
                 /\ calls[c].ret = NoError

\* a handler with an error mapper that returns an error returned a status
\* code, a body and a non-nil error: nothing was written, and Handle
\* returned the error of the mapper
C5_Witness ==
    \E c \in 1..Len(calls) :
        /\ calls[c].pc = "done" /\ calls[c].called
        /\ procs[calls[c].proc].b.serviceValue.out = <<httpStatusType, "Key", errorType>>
        /\ procs[calls[c].proc].b.errorMapper = "returning"
        /\ ReturnedError(c) = "boom"
        /\ calls[c].ret = ForeignError("returned by the error mapper")
        /\ \A j \in 1..Len(calls[c].w) : calls[c].w[j].op # "Write"

\* a builder as its holder sees it: its fields and the errors in its list
BuilderView(heap, b) == [b EXCEPT !.errors = Elems(heap, b.errors)]

\* what Build would make of a builder: the panic, or the processor with the
\* errors it carries
ProcessorOf(heap, b) ==
    LET r == Build(heap, b)
    IN  [ panic |-> r.panic,
          proc |-> IF r.panic # NoPanic THEN <<>>
                   ELSE << [r.proc EXCEPT !.errors = Elems(r.heap, r.proc.errors),
                                          !.b = BuilderView(r.heap, r.proc.b)] >> ]

\* C6: a builder operation (Decoder, Encoder, Handler, ResponseContentType,
\* ErrorMapping, Before, After) returns a new builder and leaves every
\* builder the program already holds as it was: its configuration, its
\* error list, and the processor Build makes of it.
C6_OperationsLeaveBuildersUnchanged ==
    [][ Len(builders') > Len(builders) =>
            /\ Len(builders') = Len(builders) + 1
            /\ \A i \in 1..Len(builders) :
                   /\ BuilderView(arrays', builders'[i]) = BuilderView(arrays, builders[i])
                   /\ ProcessorOf(arrays', builders'[i]) = ProcessorOf(arrays, builders[i]) ]_vars


\* what the handler of processor ep returns, alone, on request r: each
\* output is a constant of the handler or one of its arguments
ExpectedResults(ep, r) ==
    LET h == ep.b.serviceValue
    IN  [i \in 1..Len(h.out) |->
            Value(h.out[i],
                  IF h.ret[i].from = 0 THEN h.ret[i].v
                  ELSE ExpectedArgument(h.in, ep.b.pathParamsAmount, h.ret[i].from, r).v)]

\* the response to request r alone, of a handler that returns at most a
\* status code and a body, under an encoder
ExpectedResponse(ep, r) ==
    LET out == ep.b.serviceValue.out
        results == ExpectedResults(ep, r)
        status == {i \in 1..Len(out) : out[i] = httpStatusType}
        body == {i \in 1..Len(out) : out[i] = "Key"}
    IN  From(responseStatusCodeParametersGroup,
             <<Event("WriteHeader", "",
                     IF status = {} THEN 200 ELSE results[CHOOSE i \in status : TRUE].v)>>)
        \o (IF body = {} THEN <<>>
            ELSE From(responseBodyParametersGroup,
                      <<Event("Write", "",
                              Encode(ep.b.encoder, "Key",
                                     results[CHOOSE i \in body : TRUE].v).bytes)>>))

\* C7: however Handle invocations on one processor interleave, the
\* arguments the handler gets, what it returns and the response of each
\* invocation are those of that invocation run alone on its request.
C7_ConcurrentCallsAreIndependent ==
    \A c \in 1..Len(calls) :
        LET ep == procs[calls[c].proc]
            in == ep.b.serviceValue.in
        IN  /\ calls[c].called =>
                   /\ calls[c].invokeValues =
                          [i \in 1..Len(in) |->
                              ExpectedArgument(in, ep.b.pathParamsAmount, i, calls[c].r)]
                   /\ calls[c].results = ExpectedResults(ep, calls[c].r)
            /\ (calls[c].called /\ calls[c].pc = "done") =>
                   /\ calls[c].w = ExpectedResponse(ep, calls[c].r)
                   /\ calls[c].ret = NoError
            /\ (calls[c].pc = "collect" /\ calls[c].next = 1) => calls[c].invokeValues = <<>>

\* two invocations on different requests overlap: the first has collected
\* its path parameter and the second, begun after it, has answered
C7_Witness ==
    /\ Len(calls) = 2
    /\ calls[1].proc = calls[2].proc
    /\ calls[1].r.path # calls[2].r.path
    /\ calls[2].called /\ calls[2].pc = "done" /\ calls[2].w # <<>>
    /\ calls[1].pc = "collect" /\ calls[1].next = 2 /\ Len(calls[1].invokeValues) = 1


\* two or more outputs of the handler fall in the same response group
DuplicatedOutput == ~OutputsDistinct

\* C11: a handler with more than one output in the same response group (two
\* status codes, two errors, two bodies, two header maps or two cookie
\* lists) makes Build yield a processor that carries an InvalidMapping
\* error.
C11_DuplicateOutputIsInvalidMapping ==
    (IsFunc /\ DuplicatedOutput) =>
        /\ ~BuildPanicked
        /\ \A p \in 1..Len(procs) :
               procs[p].poisoned /\ HasError(procs[p], InvalidMapping)

\* the positions of seq, among those of the set at, whose element is in group g
InGroup(seq, at, groupOf(_), g) == {i \in at : groupOf(seq[i]) = g}

\* one violation for a group that holds more than one position
Surplus(S) == IF Cardinality(S) > 1 THEN 1 ELSE 0

\* the mapping violations of the handler: the path positions of a type
\* outside the supported set, and every group of inputs or of outputs that
\* holds more than one of them
MappingViolations ==
    LET in == TheHandler.in
        out == TheHandler.out
        pathAt == 1..(IF NumIn < Slots THEN NumIn ELSE Slots)
        otherAt == (Slots + 1)..NumIn
        surplusIn(g) == Surplus(InGroup(in, otherAt, otherGroupOf, g))
        surplusOut(g) == Surplus(InGroup(out, 1..Len(out), responseGroupOf, g))
    IN  Cardinality({i \in pathAt : ~InSupportedSet(in[i])})
        + surplusIn(headerParametersGroup) + surplusIn(queryParametersGroup)
        + surplusIn(cookieParametersGroup) + surplusIn(bodyParametersGroup)
        + surplusOut(responseHeaderParametersGroup)
        + surplusOut(responseCookieParametersGroup)
        + surplusOut(responseStatusCodeParametersGroup)
        + surplusOut(responseErrorParametersGroup)
        + surplusOut(responseBodyParametersGroup)

\* C12: classification errors are accumulated: the processor Build returns
\* for a handler with several mapping violations carries one error for each
\* of them.
C12_OneErrorForEachViolation ==
    (IsFunc /\ NumIn >= Slots) =>
        \A p \in 1..Len(procs) : procs[p].errors.len >= MappingViolations


\* C13: for every template the number of offsets pathValueSegmentOffsets
\* returns equals the number of parameter slots, the occurrences of "/:"
\* newBuilder counts as pathParamsAmount, slots with empty names and
\* adjacent slots included.
C13_OneOffsetForEachSlot ==
    \A i \in 1..Len(builders) :
        builders[i].pathParamsAmount > 0 =>
            Len(builders[i].offsets) = builders[i].pathParamsAmount

\* the builder of the template "/:/:" (two adjacent slots with empty names)
\* was built
C13_Witness ==
    /\ BuildReturned
    /\ procs[1].b.pathParamsAmount = 2
    /\ procs[1].b.offsets = pathValueSegmentOffsets(<<"/", ":", "/", ":">>)
    /\ Len(procs[1].b.offsets) = 2

\* the segments of s between its "/" separators
RECURSIVE Split(_)
Split(s) ==
    LET stop == Index(s, <<"/">>)
    IN  IF stop = -1 THEN <<s>>
        ELSE <<SubSeq(s, 1, stop)>> \o Split(SliceFrom(s, stop + 1))

\* the positions, among the segments of template t, of its parameter slots
RECURSIVE SlotsFrom(_, _)
SlotsFrom(segments, j) ==
    IF j > Len(segments) THEN <<>>
    ELSE (IF segments[j] # <<>> /\ segments[j][1] = ":" THEN <<j>> ELSE <<>>)
         \o SlotsFrom(segments, j + 1)

SlotPositions(t) == SlotsFrom(Split(t), 2)

\* the separator structure of path matches template t
Matches(t, path) == Len(Split(path)) = Len(Split(t))

\* builder b is the builder newBuilder makes of template t
BuilderOf(t, b) ==
    /\ b.pathParamsAmount = Count(t, pathTemplateStart)
    /\ b.pathParamsAmount > 0
    /\ b.offsets = pathValueSegmentOffsets(t)

\* C14: for a template with k slots and a request path whose separator
\* structure matches it, whatever the length of the literal segments, the
\* extractor returns k values, the i-th being the path segment at the
\* position of the i-th slot of the template.
C14_ExtractedValuesAreTheSlotSegments ==
    \A c \in 1..Len(calls) :
        LET b == procs[calls[c].proc].b
            path == calls[c].r.path
        IN  \A t \in TemplatesPath :
                (BuilderOf(t, b) /\ Matches(t, path)) =>
                    /\ fault = NoPanic
                    /\ calls[c].pc # "collect" =>
                           /\ calls[c].called
                           /\ calls[c].invokeValues =
                                  [i \in 1..b.pathParamsAmount |->
                                      Value("string", Split(path)[SlotPositions(t)[i]])]

\* C15: for a template with at least one slot and any request path, shorter
\* paths and paths of fewer segments included, extraction does not fault,
\* and a number of extracted values other than the number of path
\* parameters makes the request fail with the InvalidMapping error of the
\* arity check.
C15_ExtractionNeverFaults ==
    \A c \in 1..Len(calls) :
        LET b == procs[calls[c].proc].b
            x == pathValues(b.pathParamsAmount, b.offsets, calls[c].r.path)
        IN  b.pathParamsAmount > 0 =>
                /\ fault # "slice bounds out of range"
                /\ (Len(x.values) # b.pathParamsAmount /\ calls[c].pc # "collect") =>
                       /\ ~calls[c].called
                       /\ calls[c].executionError.GeneralCause = InvalidMapping


\* what the converters of builder b make of the path of request r: the
\* first error of a converter, if any
Converted(b, r) ==
    LET x == pathValues(b.pathParamsAmount, b.offsets, r.path)
    IN  IF x.fault \/ Len(x.values) # Len(b.pathParameters)
        THEN [panic |-> NoPanic, err |-> NoError, values |-> <<>>]
        ELSE convertLoop(b.pathParameters, x.values, 1, <<>>)

\* C16: when a converter of a path segment returns an error for a request
\* (a segment that is no number for an integer parameter), the error that
\* results for the request is of kind InvalidMapping and its context cause
\* is the parse error.
C16_ConverterErrorIsInvalidMapping ==
    \A c \in 1..Len(calls) :
        LET b == procs[calls[c].proc].b
            failed == Converted(b, calls[c].r).err
        IN  (~procs[calls[c].proc].poisoned /\ failed # NoError
             /\ calls[c].pc # "collect") =>
                /\ calls[c].executionError.GeneralCause = InvalidMapping
                /\ calls[c].executionError.ContextCause = failed.ContextCause

\* C17: a type that implements PathParameterConverter is accepted in a path
\* position whatever its kind, struct kinds included: Build records no
\* UnsupportedType for a handler whose path positions are all of such
\* types, and the handler is called with the value Convert returns for the
\* path segment.
C17_PathConvertersAreAccepted ==
    \A p \in 1..Len(procs) :
        LET in == procs[p].b.serviceValue.in
            k == procs[p].b.pathParamsAmount
        IN  (\A i \in 1..k : ImplementsPathParameterConverter(in[i])) =>
                /\ ~HasError(procs[p], UnsupportedType)
                /\ \A c \in 1..Len(calls) :
                       (calls[c].proc = p /\ calls[c].pc = "done") =>
                           /\ calls[c].called
                           /\ \A i \in 1..k :
                                  calls[c].invokeValues[i] =
                                      Value(in[i], Segment(calls[c].r.path, i))


\* the positions of the events of a call that write the status
StatusWrites(c) == {j \in 1..Len(calls[c].w) : calls[c].w[j].op = "WriteHeader"}

\* the status the handler of a call returned, 200 when it declares none
ExpectedStatus(c) ==
    LET out == procs[calls[c].proc].b.serviceValue.out
        at == {i \in 1..Len(out) : out[i] = httpStatusType}
    IN  IF at = {} THEN 200 ELSE calls[c].results[CHOOSE i \in at : TRUE].v

\* C18: on the non-error path of Handle the status is written exactly
\* once: it is the integer the handler returned when the handler declares a
\* status code, and 200 when it declares none, a handler without outputs
\* included.
C18_StatusWrittenOnce ==
    \A c \in 1..Len(calls) :
        (calls[c].called /\ ReturnedError(c) = Nil) =>
            /\ Cardinality(StatusWrites(c)) <= 1
            /\ \A j \in StatusWrites(c) : calls[c].w[j].v = ExpectedStatus(c)
            /\ calls[c].pc = "done" => Cardinality(StatusWrites(c)) = 1

\* a handler that declares a body, a nil error and a status code has
\* answered with the status it returned
C18_Witness ==
    \E c \in 1..Len(calls) :
        /\ calls[c].pc = "done" /\ calls[c].called /\ ReturnedError(c) = Nil
        /\ procs[calls[c].proc].b.serviceValue.out = <<"Key", errorType, httpStatusType>>
        /\ Cardinality(StatusWrites(c)) = 1
        /\ \E j \in StatusWrites(c) : calls[c].w[j].v = 208


\* the output positions of the handler of a call that hold a body
BodyAt(c) ==
    LET out == procs[calls[c].proc].b.serviceValue.out
    IN  {i \in 1..Len(out) : responseGroupOf(out[i]) = responseBodyParametersGroup}

\* a type whose values are written as they are: a string, a slice of bytes,
\* an array of bytes
Verbatim(t) ==
    \/ Kind(t) = "String"
    \/ Kind(t) \in {"Slice", "Array"} /\ ElemKind(t) = "Uint8"

\* C19: when no encoder is configured and the handler returns a body, the
\* body is written verbatim and Handle does not fault: a string as its
\* bytes, a slice of bytes as its bytes, an array of bytes as a copy of its
\* bytes.
C19_BodyWrittenVerbatim ==
    \A c \in 1..Len(calls) :
        LET b == procs[calls[c].proc].b
            out == b.serviceValue.out
        IN  \A i \in BodyAt(c) :
                (calls[c].called /\ b.encoder = Nil /\ Verbatim(out[i])) =>
                    /\ fault # "nil pointer dereference"
                    /\ calls[c].pc = "done" =>
                           \E j \in 1..Len(calls[c].w) :
                               /\ calls[c].w[j].op = "Write"
                               /\ calls[c].w[j].v = Bytes("raw", calls[c].results[i].v)
                               /\ \A l \in 1..Len(calls[c].w) :
                                      calls[c].w[l].op = "Write" => l = j

\* the values the response carries for a header name after the events w
RECURSIVE HeaderValues(_, _)
HeaderValues(w, name) ==
    IF w = <<>> THEN <<>>
    ELSE LET e == w[Len(w)]
             before == HeaderValues(SubSeq(w, 1, Len(w) - 1), name)
         IN  IF e.k # name THEN before
             ELSE IF e.op = "Header.Set" THEN <<e.v>>
             ELSE IF e.op = "Header.Add" THEN Append(before, e.v)
             ELSE before

\* the output positions of the handler of a call that hold a header map
HeadersAt(c) ==
    LET out == procs[calls[c].proc].b.serviceValue.out
    IN  {i \in 1..Len(out) : out[i] = headersType}

\* C20: when the handler returns a header map, the response carries after a
\* non-error Handle, for each name of the map, the values returned for it
\* in their order; an empty or nil map changes nothing; and no value, the
\* empty string included, makes Handle fault.
C20_ReturnedHeadersAreCarried ==
    \A c \in 1..Len(calls) :
        \A i \in HeadersAt(c) :
            (calls[c].called /\ ReturnedError(c) = Nil) =>
                /\ fault # "slice bounds out of range"
                /\ calls[c].pc = "done" =>
                       LET headers == responseHeaderParameters(calls[c].results[i])
                       IN  /\ \A e \in 1..Len(headers) :
                                  HeaderValues(calls[c].w, headers[e].name) =
                                      headers[e].values
                           /\ headers = <<>> =>
                                  \A j \in 1..Len(calls[c].w) :
                                      calls[c].w[j].by # responseHeaderParametersGroup


\* the value the handler of a call returned for its output of group g, or
\* none when it declares no such output
Declares(c, g) ==
    LET out == procs[calls[c].proc].b.serviceValue.out
    IN  \E i \in 1..Len(out) : responseGroupOf(out[i]) = g

ReturnedFor(c, g) ==
    LET out == procs[calls[c].proc].b.serviceValue.out
    IN  calls[c].results[CHOOSE i \in 1..Len(out) : responseGroupOf(out[i]) = g]

\* what a client sees of a sequence of events on the ResponseWriter: the
\* status, the values of each header, the cookies and the body
ResponseOf(w) ==
    LET only(op) == SelectSeq(w, LAMBDA e : e.op = op)
        values(events) == [j \in 1..Len(events) |-> events[j].v]
    IN  [ status |-> values(only("WriteHeader")),
          headers |-> [name \in {"Content-Type", "X-A", "X-B", "k1",
                                 "X-Content-Type-Options"} |-> HeaderValues(w, name)],
          cookies |-> values(only("SetCookie")),
          body |-> values(only("Write")) ]

\* the events of a call as they follow from the values its handler
\* returned, each taken by the group of its type and not by its position
EventsByGroup(c) ==
    LET b == procs[calls[c].proc].b
        headers == IF Declares(c, responseHeaderParametersGroup)
                   THEN responseHeaderParameters(ReturnedFor(c, responseHeaderParametersGroup))
                   ELSE <<>>
        cookies == IF Declares(c, responseCookieParametersGroup)
                   THEN ReturnedFor(c, responseCookieParametersGroup).v ELSE <<>>
    IN  IF ReturnedError(c) # Nil
        THEN errorMapper(ConfiguredMapper(procs[calls[c].proc]), ReturnedError(c)).events
        ELSE (IF b.contentTypeProvider # Nil
              THEN <<Event("Header.Set", "Content-Type", b.contentTypeProvider)>> ELSE <<>>)
             \o headersEvents(headers, [j \in 1..Len(headers) |-> j], <<>>).events
             \o [j \in 1..Len(cookies) |-> Event("SetCookie", "Set-Cookie", cookies[j])]
             \o <<Event("WriteHeader", "",
                        IF Declares(c, responseStatusCodeParametersGroup)
                        THEN ReturnedFor(c, responseStatusCodeParametersGroup).v ELSE 200)>>
             \o (IF Declares(c, responseBodyParametersGroup) /\ b.encoder # Nil
                 THEN <<Event("Write", "",
                              Encode(b.encoder,
                                     ReturnedFor(c, responseBodyParametersGroup).type,
                                     ReturnedFor(c, responseBodyParametersGroup).v).bytes)>>
                 ELSE <<>>)

\* C21: handlers whose output lists are permutations of each other and that
\* return the same values give the same response under the same
\* configuration (status, headers up to the order of the names, cookies,
\* body): the response is the one that follows from the returned values
\* taken by their group, each resolver reading the value at the position
\* where its group was declared.
C21_ResponseIndependentOfOutputOrder ==
    \A c \in 1..Len(calls) :
        (calls[c].called /\ calls[c].pc = "done") =>
            ResponseOf(calls[c].w) = ResponseOf(EventsByGroup(c))

\* a handler that declares error, body, status code, header map and cookies
\* in that order, none of them at its canonical place, has answered
C21_Witness ==
    \E c \in 1..Len(calls) :
        /\ calls[c].called /\ calls[c].pc = "done" /\ ReturnedError(c) = Nil
        /\ procs[calls[c].proc].b.serviceValue.out =
               <<errorType, "Key", httpStatusType, headersType, cookiesType>>
        /\ procs[calls[c].proc].b.encoder # Nil
        /\ ResponseOf(calls[c].w).status = <<208>>
        /\ Len(ResponseOf(calls[c].w).body) = 1
        /\ Len(ResponseOf(calls[c].w).cookies) = 2


\* the integer types of path parameters, with their width in bits on a
\* platform whose word has 64 bits
IsInteger(t) == Kind(t) \in {"Int", "Int8", "Int16", "Int32", "Int64",
                             "Uint", "Uint8", "Uint16", "Uint32", "Uint64"}

IsSigned(t) == Kind(t) \in {"Int", "Int8", "Int16", "Int32", "Int64"}

WidthOf(t) ==
    CASE Kind(t) \in {"Int8", "Uint8"} -> 8
      [] Kind(t) \in {"Int16", "Uint16"} -> 16
      [] Kind(t) \in {"Int32", "Uint32"} -> 32
      [] OTHER -> 64

\* segment is a base-10 numeral whose value lies in the range of type t
InRangeOf(t, segment) ==
    LET neg == segment # <<>> /\ Head(segment) = "-"
        ds == IF neg THEN Tail(segment) ELSE segment
    IN  /\ ds # <<>>
        /\ \A i \in 1..Len(ds) : IsDigit(ds[i])
        /\ IF IsSigned(t)
           THEN IF neg THEN NumLeq(ds, SignedCutoff(WidthOf(t)))
                ELSE ~NumLeq(SignedCutoff(WidthOf(t)), ds)
           ELSE ~neg /\ NumLeq(ds, UnsignedMax(WidthOf(t)))

\* the number a base-10 numeral stands for
NumberOf(segment) ==
    IF Head(segment) = "-" THEN Number(TRUE, Tail(segment))
    ELSE Number(FALSE, segment)

\* C22: for an integer path parameter of width 8, 16, 32, 64 or the word
\* size of the platform, signed or unsigned, the converter accepts exactly
\* the base-10 segments whose value is in the range of the type and hands
\* that value to the handler: a value outside the range is an error, never
\* wrapped or cut, and a value inside the range is never rejected.
C22_IntegerSegmentsAcceptedIffInRange ==
    \A c \in 1..Len(calls) :
        LET b == procs[calls[c].proc].b
            in == b.serviceValue.in
            k == b.pathParamsAmount
            path == calls[c].r.path
        IN  (/\ ~procs[calls[c].proc].poisoned
             /\ calls[c].pc # "collect"
             /\ \A i \in 1..k : IsInteger(in[i])) =>
                /\ calls[c].called <=> \A i \in 1..k : InRangeOf(in[i], Segment(path, i))
                /\ calls[c].called =>
                       \A i \in 1..k :
                           calls[c].invokeValues[i] =
                               Value(in[i], NumberOf(Segment(path, i)))


\* the handler of processor ep has, after its path positions, an input that
\* is none of header map, query values and cookie list: a body
HasBodyInput(ep) ==
    LET in == ep.b.serviceValue.in
        k == ep.b.pathParamsAmount
    IN  \E i \in (k + 1)..Len(in) : otherGroupOf(in[i]) = bodyParametersGroup

\* C23: a handler with a body input built without a decoder gives a
\* processor that carries an InvalidMapping error; with a decoder
\* configured anywhere in the chain, before or after Handler, no such
\* error is recorded.  Stated of what Build makes of every builder the
\* program holds.
C23_BodyInputNeedsADecoder ==
    \A i \in 1..Len(builders) :
        LET built == ProcessorOf(arrays, builders[i]).proc
        IN  (built # <<>> /\ HasBodyInput(built[1])) =>
                /\ builders[i].decoder = Nil =>
                       /\ built[1].poisoned
                       /\ \E j \in 1..Len(built[1].errors) :
                              built[1].errors[j].GeneralCause = InvalidMapping
                /\ builders[i].decoder # Nil =>
                       \A j \in 1..Len(built[1].errors) :
                           built[1].errors[j].ContextCause #
                               "mapping of request body to struct without decoder is impossible"


\* C24: when the only output of the handler is an error, the handler
\* returns a non-nil error and no error mapper was configured, the response
\* has status 500 and a body that is the message of the error followed by
\* one newline, and Handle returns nil.
C24_DefaultMapperAnswers500 ==
    \A c \in 1..Len(calls) :
        LET ep == procs[calls[c].proc]
        IN  (/\ ep.b.serviceValue.out = <<errorType>>
             /\ ep.b.errorMapper = Nil
             /\ calls[c].called /\ ReturnedError(c) # Nil) =>
                /\ fault = NoPanic
                /\ calls[c].pc # "resolve"
                /\ calls[c].pc = "done" =>
                       /\ ResponseOf(calls[c].w).status = <<500>>
                       /\ ResponseOf(calls[c].w).body =
                              <<Bytes("raw", <<ReturnedError(c), "\n">>)>>
                       /\ calls[c].ret = NoError

\* a handler that only returns an error has returned "boom" under a builder
\* without error mapper, and Handle has returned
C24_Witness ==
    \E c \in 1..Len(calls) :
        /\ procs[calls[c].proc].b.serviceValue.out = <<errorType>>
        /\ procs[calls[c].proc].b.errorMapper = Nil
        /\ calls[c].called /\ ReturnedError(c) = "boom"
        /\ calls[c].pc = "done"
        /\ ResponseOf(calls[c].w).status = <<500>>


\* the handler of processor ep returns its body input as its body output
ReturnsItsBody(ep) ==
    LET h == ep.b.serviceValue
    IN  \E i \in (ep.b.pathParamsAmount + 1)..Len(h.in), j \in 1..Len(h.out) :
            /\ otherGroupOf(h.in[i]) = bodyParametersGroup
            /\ responseGroupOf(h.out[j]) = responseBodyParametersGroup
            /\ h.ret[j].from = i

\* the type U of the body input of the handler of processor ep
BodyInputType(ep) ==
    LET h == ep.b.serviceValue
    IN  h.in[CHOOSE i \in (ep.b.pathParamsAmount + 1)..Len(h.in) :
                 otherGroupOf(h.in[i]) = bodyParametersGroup]

\* decode after encode is the identity on the type t: the encoder encodes
\* every value of t and the decoder gives it back
DecodeAfterEncodeIsIdentity(decoder, encoder, t) ==
    /\ decoder # Nil /\ encoder # Nil
    /\ \A v \in ValuesRoundTrip :
           LET e == Encode(encoder, t, v)
           IN  /\ e.err = NoError
               /\ Decode(decoder, e.bytes) = [err |-> NoError, val |-> v]

\* C25: round trip: for a handler with a body input of type U that returns
\* it unchanged as the response body, under a decoder and an encoder whose
\* decode after encode is the identity on U, every request whose body
\* decodes to u gets a response whose body decodes to u.
C25_BodyRoundTrip ==
    \A c \in 1..Len(calls) :
        LET ep == procs[calls[c].proc]
            sent == Decode(ep.b.decoder, calls[c].r.body)
        IN  (/\ ~ep.poisoned /\ ReturnsItsBody(ep)
             /\ DecodeAfterEncodeIsIdentity(ep.b.decoder, ep.b.encoder, BodyInputType(ep))
             /\ calls[c].r.body # NoBody /\ sent.err = NoError) =>
                /\ fault # NoPanic => calls[c].pc = "done"
                /\ calls[c].pc = "done" =>
                       /\ Len(ResponseOf(calls[c].w).body) = 1
                       /\ Decode(ep.b.decoder, ResponseOf(calls[c].w).body[1]) = sent

\* a handler func(int, string) (int, string) under the XML decoder and
\* encoder has answered a request whose body decodes to "m"
C25_Witness ==
    \E c \in 1..Len(calls) :
        /\ calls[c].pc = "done" /\ calls[c].called
        /\ procs[calls[c].proc].b.serviceValue.in = <<"int", "string">>
        /\ procs[calls[c].proc].b.decoder = "XML"
        /\ procs[calls[c].proc].b.encoder = "XML"
        /\ Decode("XML", calls[c].r.body).val = "m"
        /\ Len(ResponseOf(calls[c].w).body) = 1


\* C26: for a handler without header map and without cookie outputs, a
\* non-error Handle under a builder without response content type sets no
\* response header at all, and writes no body when the handler has no body
\* output; under a builder with a response content type the Content-Type
\* header is the value of the configured provider.
C26_OnlyTheConfiguredContentTypeIsSet ==
    \A c \in 1..Len(calls) :
        LET b == procs[calls[c].proc].b
            w == calls[c].w
        IN  (/\ calls[c].called /\ ReturnedError(c) = Nil
             /\ ~Declares(c, responseHeaderParametersGroup)
             /\ ~Declares(c, responseCookieParametersGroup)) =>
                /\ b.contentTypeProvider = Nil =>
                       \A j \in 1..Len(w) :
                           w[j].op \notin {"Header.Set", "Header.Add", "SetCookie"}
                /\ ~Declares(c, responseBodyParametersGroup) =>
                       \A j \in 1..Len(w) : w[j].op # "Write"
                /\ (b.contentTypeProvider # Nil /\ calls[c].pc = "done") =>
                       /\ HeaderValues(w, "Content-Type") = <<b.contentTypeProvider>>
                       /\ \A j \in 1..Len(w) :
                              w[j].op \in {"Header.Set", "Header.Add", "SetCookie"}
                                  => w[j].k = "Content-Type"

\* a handler that only returns a status code has answered under a builder
\* with a response content type: the one header set is Content-Type
C26_Witness ==
    \E c \in 1..Len(calls) :
        /\ calls[c].pc = "done" /\ calls[c].called
        /\ procs[calls[c].proc].b.serviceValue.out = <<httpStatusType>>
        /\ procs[calls[c].proc].b.contentTypeProvider # Nil
        /\ HeaderValues(calls[c].w, "Content-Type") =
               <<procs[calls[c].proc].b.contentTypeProvider>>
        /\ ResponseOf(calls[c].w).status = <<208>>
        /\ ResponseOf(calls[c].w).body = <<>>


\* C27: when Handler is given a value that is not a function, the builder
\* it returns records an InvalidMapping error, and a Build of that builder,
\* no function ever set, does not fault: it returns a poisoned processor
\* whose Handle returns that error.
C27_NonFunctionHandlerPoisons ==
    (Len(builders) = 1 /\ ~IsFunc /\ builders[1].errors.len > 0) =>
        /\ HasError(builders[1], InvalidMapping)
        /\ ~BuildPanicked
        /\ \A p \in 1..Len(procs) : procs[p].poisoned
        /\ \A c \in 1..Len(calls) :
               calls[c].pc = "done" /\ calls[c].ret.GeneralCause = InvalidMapping


\* the 0-based positions in template t of the ":" of its slots
SlotColons(t) == {c \in 1..(Len(t) - 1) : t[c] = "/" /\ t[c + 1] = ":"}

\* the j-th smallest element of a set of numbers
Nth(S, j) == CHOOSE x \in S : Cardinality({y \in S : y < x}) = j - 1

\* the 0-based position of the "/" that ends the segment of the slot whose
\* ":" is at position c
SegmentEnd(t, c) ==
    CHOOSE e \in c..(Len(t) - 1) :
        t[e + 1] = "/" /\ \A f \in c..(e - 1) : t[f + 1] # "/"

\* the offsets of template t as distances: the first from the start of the
\* template, each later one from the end of the segment of the slot before
RelativeOffsets(t) ==
    [j \in 1..Cardinality(SlotColons(t)) |->
        IF j = 1 THEN Nth(SlotColons(t), 1)
        ELSE Nth(SlotColons(t), j) - SegmentEnd(t, Nth(SlotColons(t), j - 1))]

\* C28: the offsets of pathValueSegmentOffsets are relative: the first is
\* the index of the ":" of the first slot, each later one the distance from
\* the "/" that ends the segment of the slot before to the ":" of the next
\* slot; a template without slot has no offset, a slot with an empty name
\* at the end is recorded, and the second of two adjacent slots has
\* offset 1.
C28_OffsetsAreRelative ==
    (procs = <<>> /\ fault = NoPanic) =>
        \A t \in TemplatesPath :
            /\ BuilderOf(t, builders[1]) => builders[1].offsets = RelativeOffsets(t)
            /\ (Count(t, pathTemplateStart) = builders[1].pathParamsAmount
                /\ builders[1].pathParamsAmount = 0) => builders[1].offsets = <<>>

\* the builder of the template "/a/:/:": a slot after a literal segment
\* and a slot right after it, both with an empty name
C28_Witness ==
    /\ procs = <<>>
    /\ BuilderOf(<<"/", "a", "/", ":", "/", ":">>, builders[1])
    /\ builders[1].offsets = <<3, 1>>

\* C29: for a template with at least one slot, the extractor built from
\* the offsets of the template, applied to the template itself, returns
\* the slot segments of the template, in order, each starting with ":" and
\* holding no "/".
C29_ExtractorReturnsTheSlotsOfItsTemplate ==
    \A c \in 1..Len(calls) :
        LET b == procs[calls[c].proc].b
            t == calls[c].r.path
        IN  BuilderOf(t, b) =>
                /\ fault = NoPanic
                /\ calls[c].pc # "collect" =>
                       /\ calls[c].called
                       /\ Len(calls[c].invokeValues) = Count(t, pathTemplateStart)
                       /\ \A i \in 1..Len(calls[c].invokeValues) :
                              LET v == calls[c].invokeValues[i].v
                              IN  /\ v = Split(t)[SlotPositions(t)[i]]
                                  /\ v # <<>> /\ v[1] = ":"
                                  /\ Index(v, <<"/">>) = -1

\* the handler of the template "/:a/:" was called with ":a" and ":"
C29_Witness ==
    \E c \in 1..Len(calls) :
        /\ calls[c].r.path = <<"/", ":", "a", "/", ":">>
        /\ BuilderOf(calls[c].r.path, procs[calls[c].proc].b)
        /\ calls[c].called
        /\ calls[c].invokeValues = <<Value("string", <<":", "a">>), Value("string", <<":">>)>>

\* a processor as its holder sees it: its classification, its closures and
\* the build errors in its list
ProcessorView(heap, ep) ==
    [ep EXCEPT !.errors = Elems(heap, ep.errors), !.b = BuilderView(heap, ep.b)]

\* C30: Build does not modify the builder it is called on: the builder is
\* as it was, a further Build of it makes the same processor, no build
\* error duplicated or carried over, and the processors built before keep
\* their classification and their build errors, whatever configuration
\* calls on the builder come in between.
C30_BuildLeavesTheBuilderUnchanged ==
    [][ /\ Len(procs') > Len(procs) =>
               \E i \in 1..Len(builders) :
                   /\ ProcessorOf(arrays, builders[i]).proc
                          = <<ProcessorView(arrays', procs'[Len(procs')])>>
                   /\ BuilderView(arrays', builders'[i]) = BuilderView(arrays, builders[i])
                   /\ ProcessorOf(arrays', builders'[i]) = ProcessorOf(arrays, builders[i])
        /\ \A p \in 1..Len(procs) :
               ProcessorView(arrays', procs'[p]) = ProcessorView(arrays, procs[p]) ]_vars

====
